---- MODULE Spec2Model ----
(***************************************************************************)
(* HTML-to-PPTX structural converter                                       *)
(* (src/backend/app/services/pptx_generator.py).                           *)
(*                                                                         *)
(* Four state machines share the helper operators below:                  *)
(*   SpecTable    SlideRenderer._render_table: column-width resolution     *)
(*   SpecSection  SlideRenderer._positioned_blocks dispatching one slide's *)
(*                flat child list to the section renderers                 *)
(*   Spec         html_to_pptx: parse, zero-slide precondition, per-slide  *)
(*                render with exception containment, serialisation         *)
(*   SpecHelpers  one call of _px, _pct, _resolve_width, _parse_color or   *)
(*                _is_light on an argument drawn from a bounded set        *)
(*                                                                         *)
(* Geometry is kept in EMU, as the shape factories store it (every         *)
(* coordinate passes through E).  A CSS value is a record [k, n]:          *)
(*   k = "none"  property absent or empty                                  *)
(*   k = "px"    "<n>px"                                                   *)
(*   k = "pct"   "<n>%"                                                    *)
(*   k = "word"  a non-numeric keyword such as "auto"                      *)
(*   k = "bad"   a malformed numeric such as "1.2.3px": the regular        *)
(*               expression of _px accepts it and float() raises           *)
(***************************************************************************)
EXTENDS Integers, Sequences, FiniteSets, TLC

VARIABLES
    \* ---- _render_table ----
    tpc,        \* "idle" | "input" | "rendered" | "skipped"
    tbl,        \* the <table> element and the arguments of _render_table
    tblOut,     \* the table shape added to the slide: frame width and grid columns
    \* ---- _positioned_blocks ----
    spc,        \* "idle" | "loop" | "done" | "raised"
    ss,         \* stylesheet entries the section renderers read
    children,   \* list(self.el): the slide's direct children
    idx,        \* loop index of enumerate(all_children), 1-based
    processed,  \* indices of the sibling boxes consumed by a header
    shapes,     \* shapes added to the slide so far, in emission order
    \* ---- html_to_pptx ----
    pc,         \* "idle" | "start" | "parsed" | "loop" | "chrome" | "blocks" |
                \* "legend" | "links" | "except" | "save" | "done" | "raised"
    html,       \* the input document
    prs,        \* "none" before Presentation() is created, "created" after
    i,          \* index of the slide being rendered, 1-based
    out,        \* prs.slides: one shape sequence per slide added
    err,        \* the exception propagated to the caller, "" if none
    result,     \* "none" | "bytes"
    prev,       \* what the earlier call on the same input ended with
    \* ---- one call of a style helper ----
    fpc,        \* "idle" | "call" | "returned" | "raised"
    arg,        \* the helper called and its arguments
    ret         \* the value returned

vars == <<tpc, tbl, tblOut, spc, ss, children, idx, processed, shapes,
          pc, html, prs, i, out, err, result, prev, fpc, arg, ret>>

tableVars == <<tpc, tbl, tblOut>>
sectionVars == <<spc, ss, children, idx, processed, shapes>>
docVars == <<pc, html, prs, i, out, err, result, prev>>
helperVars == <<fpc, arg, ret>>

(***************************************************************************)
(* Constants of the converter                                              *)
(***************************************************************************)
SLIDE_W_PX == 960
SLIDE_H_PX == 540
SLIDE_W_IN == 10
EMU_PER_INCH == 914400
ROW_H == 22
SECTION_DEFAULT_W == 420
PLANNING_DEFAULT_W == 900
BOX_DEFAULT_H == 80
BOX_GAP == 20
PLANNING_GAP == 28

(***************************************************************************)
(* Bounds of the model                                                     *)
(***************************************************************************)
MaxCols == 3
MaxExtraCols == 1
MaxSlides == 3

(***************************************************************************)
(* CSS values                                                              *)
(***************************************************************************)
NoVal == [k |-> "none", n |-> 0]
Word == [k |-> "word", n |-> 0]
Bad == [k |-> "bad", n |-> 0]

Px(n) ==
    [k |-> "px", n |-> n]

Pct(n) ==
    [k |-> "pct", n |-> n]

\* `a or b` on two style strings: the first one that is not empty.
OrVal(a, b) ==
    IF a.k # "none" THEN a ELSE b

\* float() raises ValueError on what [\d.]+ matched.
PxRaises(v) ==
    v.k = "bad"

\* A value with a leading minus sign, as in "-10px".
Neg(n) ==
    [k |-> "neg", n |-> n]

\* A mutant of PxOf: the sign of the value is read.
PxSigned(v) ==
    IF v.k \in {"px", "pct"} THEN v.n ELSE IF v.k = "neg" THEN 0 - v.n ELSE 0

\* _px: the leading run of digits, whatever follows it ("px", "%", nothing);
\* 0 when the value does not start with a digit.
PxOf(v) ==
    IF v.k \in {"px", "pct"} THEN v.n ELSE 0

\* _pct: the leading number of a value that continues with "%".
PctOf(v) ==
    IF v.k = "pct" THEN v.n ELSE 0

\* _resolve_width(sty, key, default, container_w) on the value of sty[key].
ResolveWidth(v, default, container_w) ==
    IF v.k = "none" THEN default
    ELSE IF PxOf(v) > 0 THEN PxOf(v)
    ELSE IF v.k = "pct" THEN (container_w * PctOf(v)) \div 100
    ELSE default

(***************************************************************************)
(* Pixel to EMU                                                            *)
(***************************************************************************)
Abs(x) ==
    IF x < 0 THEN -x ELSE x

\* round(num / den) as Python rounds a float: to nearest, ties to even.
RoundHalfEven(num, den) ==
    LET q == num \div den
        r == num % den
    IN  IF 2 * r < den THEN q
        ELSE IF 2 * r > den THEN q + 1
        ELSE IF q % 2 = 0 THEN q ELSE q + 1

\* _SCALE * 914400 = 10 / 960 * 914400, which is the whole number 9525.
EmuPerPx ==
    (SLIDE_W_IN * EMU_PER_INCH) \div SLIDE_W_PX

\* E applied to the pixel length num/den: int(round(px * _SCALE * 914400)).
ERat(num, den) ==
    RoundHalfEven(num * EmuPerPx, den)

\* A mutant of E: the pixel is taken for a point, 1/72 in.
EInPoints(px) ==
    ERat(px * 4, 3)

E(px) ==
    ERat(px, 1)

RECURSIVE SumSeq(_)
SumSeq(s) ==
    IF Len(s) = 0 THEN 0 ELSE Head(s) + SumSeq(Tail(s))

(***************************************************************************)
(* Shapes.  Every shape carries its kind, its frame in EMU, its text and,  *)
(* for a table, the widths of its grid columns.                            *)
(***************************************************************************)
Shape(kind, left, top, w, h, text) ==
    [kind |-> kind, x |-> E(left), y |-> E(top), w |-> E(w), h |-> E(h),
     text |-> text, cols |-> <<>>]

\* A raise inside a renderer, as an entry of its emission trace.
RaiseMark == [kind |-> "raise", x |-> 0, y |-> 0, w |-> 0, h |-> 0,
              text |-> "", cols |-> <<>>]

RaiseIf(cond) ==
    IF cond THEN <<RaiseMark>> ELSE <<>>

(***************************************************************************)
(* SlideRenderer._render_table: geometry of the grid                       *)
(*                                                                         *)
(* A table is [left, top, width] (the arguments), tblw (the table's own    *)
(* inline width), first (the cells of trs[0]) and more (the number of      *)
(* cells of each later row).  A cell is [w, clsw]: its inline width and    *)
(* the width of the stylesheet rule of each of its classes.                *)
(***************************************************************************)
Cell(w, clsw) ==
    [w |-> w, clsw |-> clsw]

RECURSIVE MaxOf(_)
MaxOf(s) ==
    IF Len(s) = 0 THEN 0
    ELSE LET m == MaxOf(Tail(s)) IN IF Head(s) > m THEN Head(s) ELSE m

\* n_cols = max(len(tr.cssselect('th, td')) for tr in trs)
NCols(t) ==
    MaxOf(<<Len(t.first)>> \o t.more)

NRows(t) ==
    1 + Len(t.more)

\* `if width <= 0` fallback, then the table's own width when it resolves.
TableWidth(t) ==
    LET w0 == IF t.width <= 0 THEN SLIDE_W_PX - t.left - 20 ELSE t.width
        tw == ResolveWidth(t.tblw, 0, w0)
    IN  IF tw > 0 THEN tw ELSE w0

\* The first class whose rule resolves to a positive width, else 0.
RECURSIVE ClassWidth(_, _)
ClassWidth(clsw, width) ==
    IF Len(clsw) = 0 THEN 0
    ELSE LET cw == ResolveWidth(Head(clsw), 0, width)
         IN  IF cw > 0 \/ Len(clsw) = 1 THEN cw
             ELSE ClassWidth(Tail(clsw), width)

\* cw of one first-row cell: inline width, then the class rules.
CellWidth(c, width) ==
    LET cw == ResolveWidth(c.w, 0, width)
    IN  IF cw = 0 THEN ClassWidth(c.clsw, width) ELSE cw

ExplicitW(t) ==
    [ci \in 1..Len(t.first) |-> CellWidth(t.first[ci], TableWidth(t))]

Remaining(t) ==
    TableWidth(t) - SumSeq(ExplicitW(t))

NAuto(t) ==
    Cardinality({ci \in 1..Len(t.first) : ExplicitW(t)[ci] = 0})

\* A mutant of AutoW: the remaining width is split over all the columns.
AutoWOverAllColumns(t) ==
    IF NAuto(t) > 0 THEN <<Remaining(t), Len(t.first)>> ELSE <<0, 1>>

\* auto_w = remaining / max(n_auto, 1) if n_auto else 0, as <<num, den>>.
AutoW(t) ==
    IF NAuto(t) > 0 THEN <<Remaining(t), NAuto(t)>> ELSE <<0, 1>>

\* col_widths = [w if w > 0 else auto_w for w in explicit_w], as <<num, den>>.
ColWidths(t) ==
    [ci \in 1..Len(t.first) |->
        IF ExplicitW(t)[ci] > 0 THEN <<ExplicitW(t)[ci], 1>> ELSE AutoW(t)]

\* add_table gives every grid column int(width / cols).
DefaultColEmu(t) ==
    E(TableWidth(t)) \div NCols(t)

\* The grid after `tbl.columns[ci].width = E(cw)` for every ci < n_cols.
GridCols(t) ==
    [ci \in 1..NCols(t) |->
        IF ci <= Len(t.first)
        THEN ERat(ColWidths(t)[ci][1], ColWidths(t)[ci][2])
        ELSE DefaultColEmu(t)]

\* The table shape of _render_table.
TableShape(t) ==
    [kind |-> "table", x |-> E(t.left), y |-> E(t.top), w |-> E(TableWidth(t)),
     h |-> E(NRows(t) * ROW_H + 4), text |-> "", cols |-> GridCols(t)]

\* _render_table as an emission trace: nothing when the table has no cell.
RenderTable(t) ==
    IF NCols(t) = 0 THEN <<>> ELSE <<TableShape(t)>>

NoTable == [kind |-> "none", x |-> 0, y |-> 0, w |-> 0, h |-> 0,
            text |-> "", cols |-> <<>>]

NoTableInput == [left |-> 0, top |-> 0, width |-> 0, tblw |-> NoVal,
                 first |-> <<>>, more |-> <<>>]

(***************************************************************************)
(* Inputs of the table machine                                             *)
(***************************************************************************)
CellInputs ==
    { Cell(NoVal, <<>>), Cell(Px(100), <<>>), Cell(Px(200), <<>>),
      Cell(Px(400), <<>>), Cell(Pct(25), <<>>), Cell(NoVal, <<Px(150)>>) }

RECURSIVE SeqsUpTo(_, _)
SeqsUpTo(S, n) ==
    IF n = 0 THEN {<<>>}
    ELSE LET P == SeqsUpTo(S, n - 1)
         IN  P \cup {Append(s, e) : s \in {p \in P : Len(p) = n - 1}, e \in S}

TableInputs ==
    UNION { { [left |-> 20, top |-> 105, width |-> w, tblw |-> tw, first |-> f,
               more |-> m] :
                w \in {400, 0}, tw \in {NoVal, Px(300)},
                m \in {<<>>} \cup {<<Len(f) + k>> : k \in 0..MaxExtraCols} } :
            f \in SeqsUpTo(CellInputs, MaxCols) }

TableIdle ==
    /\ tpc = "idle"
    /\ tbl = NoTableInput
    /\ tblOut = NoTable

TableInit ==
    /\ tpc = "input"
    /\ tbl \in TableInputs
    /\ tblOut = NoTable

\* _render_table on a table with at least one cell.
TableRender ==
    /\ tpc = "input"
    /\ NCols(tbl) > 0
    /\ tblOut' = RenderTable(tbl)[1]
    /\ tpc' = "rendered"
    /\ UNCHANGED tbl

\* _render_table returns at `if not n_cols`.
TableSkip ==
    /\ tpc = "input"
    /\ NCols(tbl) = 0
    /\ tpc' = "skipped"
    /\ UNCHANGED <<tbl, tblOut>>


(***************************************************************************)
(* Elements of a slide                                                     *)
(*                                                                         *)
(* A style is the inline style dict of _sty, reduced to the properties the *)
(* dispatcher and the section renderers read.  An element carries what the *)
(* code asks of it: its tag, the tokens of its class attribute, its style, *)
(* whether cssselect('.section-header') finds something in it, the text    *)
(* and inline font size of its first .section-title, the list              *)
(* cssselect('.section-box') returns below it (boxes), and its content.    *)
(* A content is what the box renderers walk: the direct text node, the     *)
(* block children (kids), the tables below it, the progress-bar children   *)
(* (bars), the .trend-item texts when the box is itself a trend box        *)
(* (items), and the .trend-box descendants (trend).                        *)
(***************************************************************************)
Style(pos, top, left, width, height, bottom) ==
    [pos |-> pos, top |-> top, left |-> left, width |-> width,
     height |-> height, bottom |-> bottom]

NoStyle == Style(FALSE, NoVal, NoVal, NoVal, NoVal, NoVal)

NoContent == [text |-> "", kids |-> <<>>, tables |-> <<>>, bars |-> <<>>,
              items |-> <<>>, trend |-> <<>>]

TableEl(tblw, first, more) ==
    [tblw |-> tblw, first |-> first, more |-> more]

\* The arguments of _render_table for a table element.
TableArgs(tel, left, top, width) ==
    [left |-> left, top |-> top, width |-> width, tblw |-> tel.tblw,
     first |-> tel.first, more |-> tel.more]

Kid(tag, text) ==
    [tag |-> tag, text |-> text]

\* A child of a planning box holding one rounded inner div: its height, the
\* widths of its filled inner divs, the texts of its spans.
Bar(h, fills, spans) ==
    [h |-> h, fills |-> fills, spans |-> spans]

BoxEl(cls, st, content) ==
    [cls |-> cls, st |-> st, content |-> content]

El(tag, cls, st, hdr, title, titleFs, boxes, content) ==
    [tag |-> tag, cls |-> cls, st |-> st, hdr |-> hdr, title |-> title,
     titleFs |-> titleFs, boxes |-> boxes, content |-> content,
     legendSpan |-> FALSE, links |-> 0, footer |-> FALSE, nested |-> <<>>]

\* `name in div_cls`: a substring test on the class attribute.
SubstringPairs ==
    { <<"catalogo", "logo">>, <<"section-box-wide", "section-box">> }

ClsHas(cls, name) ==
    \E c \in cls : c = name \/ <<c, name>> \in SubstringPairs

\* A top-level element read as the box of a header (sibling pattern).
AsBox(el) ==
    BoxEl(el.cls, el.st, el.content)

InlineTags == {"strong", "b", "em", "i", "span", "a", "br", "sub", "sup"}

\* Span texts on which `'%' in stxt` holds.
PctLabels == {"50%", "100%"}

(***************************************************************************)
(* Emission traces.  A renderer is modelled by the sequence of shapes it   *)
(* adds, with a RaiseMark where a _px call raises: the shapes before the   *)
(* first mark are on the slide when the exception leaves the renderer.     *)
(***************************************************************************)
RECURSIVE Emitted(_)
Emitted(tr) ==
    IF Len(tr) = 0 \/ Head(tr).kind = "raise" THEN <<>>
    ELSE <<Head(tr)>> \o Emitted(Tail(tr))

Raised(tr) ==
    \E k \in 1..Len(tr) : tr[k].kind = "raise"

\* _resolve_width raises where _px does: on a present, malformed value.
WidthRaises(v) ==
    PxRaises(v)

\* A shape whose width is the pixel length num/den.
ShapeRatW(kind, left, top, num, den, h, text) ==
    [kind |-> kind, x |-> E(left), y |-> E(top), w |-> ERat(num, den),
     h |-> E(h), text |-> text, cols |-> <<>>]

(***************************************************************************)
(* SlideRenderer._section_chrome                                           *)
(***************************************************************************)
\* The box the chrome outlines: ext_box, else the first nested .section-box.
ChromeBox(div, ext) ==
    IF Len(ext) > 0 THEN ext
    ELSE IF Len(div.boxes) > 0 THEN <<div.boxes[1]>> ELSE <<>>

\* A mutant of BoxRectTop: a box without its own top starts at the
\* separator, the fixed gap forgotten.
BoxRectTopNoGap(top, box) ==
    IF PxOf(box.st.top) > 0 THEN PxOf(box.st.top) ELSE top

\* Top of the box rectangle: the box's own top when positive, else 20px
\* below the section's top.
BoxRectTop(top, box) ==
    IF PxOf(box.st.top) > 0 THEN PxOf(box.st.top) ELSE top + BOX_GAP

BoxRectLeft(left, box) ==
    IF PxOf(box.st.top) > 0 /\ PxOf(box.st.left) # 0
    THEN PxOf(box.st.left) ELSE left

BoxOutline(div, box, sheet) ==
    LET top == PxOf(div.st.top)
        left == PxOf(div.st.left)
        w == ResolveWidth(div.st.width, SECTION_DEFAULT_W, SLIDE_W_PX)
        hv == OrVal(box.st.height, OrVal(sheet.boxH, Px(BOX_DEFAULT_H)))
    IN  RaiseIf(PxRaises(hv))
        \o RaiseIf(PxRaises(box.st.top))
        \o RaiseIf(PxRaises(box.st.left))
        \o <<Shape("box", BoxRectLeft(left, box), BoxRectTop(top, box),
                  w, PxOf(hv), "")>>

SectionChrome(div, ext, sheet) ==
    LET top == PxOf(div.st.top)
        left == PxOf(div.st.left)
        w == ResolveWidth(div.st.width, SECTION_DEFAULT_W, SLIDE_W_PX)
        fs == OrVal(div.titleFs, OrVal(sheet.titleFs, Px(13)))
        box == ChromeBox(div, ext)
    IN  RaiseIf(PxRaises(div.st.top))
        \o RaiseIf(PxRaises(div.st.left))
        \o RaiseIf(WidthRaises(div.st.width))
        \o <<Shape("separator", left, top, w, 1, "")>>
        \o (IF div.title # ""
            THEN RaiseIf(PxRaises(fs))
                 \o <<Shape("title", left, top + 2, w, 16, div.title)>>
            ELSE <<>>)
        \o (IF Len(box) > 0 THEN BoxOutline(div, box[1], sheet) ELSE <<>>)

(***************************************************************************)
(* SlideRenderer._render_box_content, for paragraphs and leaf divs         *)
(***************************************************************************)
\* The loop over the element children of the box: inline tags are skipped,
\* a <p> or a leaf <div> with text gets one text box and moves y by 14.
\* The box's own text node (parent.text) is not an element child.
RECURSIVE KidsTrace(_, _, _, _)
KidsTrace(kids, left, y, w) ==
    IF Len(kids) = 0 THEN <<>>
    ELSE LET c == Head(kids)
         IN  IF c.tag \in InlineTags THEN KidsTrace(Tail(kids), left, y, w)
             ELSE IF c.tag \in {"p", "div"} /\ c.text # ""
             THEN <<Shape("text", left + 8, y, w - 16, 14, c.text)>>
                  \o KidsTrace(Tail(kids), left, y + 14, w)
             ELSE KidsTrace(Tail(kids), left, y, w)

BoxContent(content, left, y, w) ==
    KidsTrace(content.kids, left, y, w)

(***************************************************************************)
(* SlideRenderer._section_full_with_box                                    *)
(***************************************************************************)
TrendItems(items, x, y) ==
    [k \in 1..Len(items) |-> Shape("trend", x + (k - 1) * (80 + 30), y, 80, 20, items[k])]

TrendTrace(box, left, box_top) ==
    LET self == ClsHas(box.cls, "trend-box")
        tst == IF self THEN box.st ELSE box.content.trend[1].st
        items == IF self THEN box.content.items ELSE box.content.trend[1].items
        y == IF PxOf(tst.top) > 0 THEN PxOf(tst.top) ELSE box_top + 10
        x == (IF PxOf(tst.left) # 0 THEN PxOf(tst.left) ELSE left) + 8
    IN  RaiseIf(PxRaises(tst.top)) \o RaiseIf(PxRaises(tst.left))
        \o TrendItems(items, x, y)

SectionFullWithBox(div, ext, sheet) ==
    LET top == PxOf(div.st.top)
        left == PxOf(div.st.left)
        w == ResolveWidth(div.st.width, SECTION_DEFAULT_W, SLIDE_W_PX)
        boxes == ChromeBox(div, ext)
    IN  SectionChrome(div, ext, sheet)
        \o (IF Len(boxes) = 0 THEN <<>>
            ELSE LET box == boxes[1]
                     box_top == BoxRectTop(top, box)
                 IN  IF Len(box.content.tables) > 0
                     THEN RenderTable(TableArgs(box.content.tables[1],
                                                left + 2, box_top + 2, w - 4))
                     ELSE IF ClsHas(box.cls, "trend-box")
                             \/ Len(box.content.trend) > 0
                     THEN TrendTrace(box, left, box_top)
                     ELSE BoxContent(box.content, left, box_top + 6, w))

(***************************************************************************)
(* SlideRenderer._planning_with_box                                        *)
(***************************************************************************)
\* A bar is drawn when the inner div has a filled child or a span.  The bar
\* pattern requires a height declaration, so the '16' default is never read.
BarDrawn(b) ==
    Len(b.fills) > 0 \/ Len(b.spans) > 0

BarTrace(b, left, y, w) ==
    RaiseIf(PxRaises(b.h))
    \o <<Shape("bar", left + 12, y, w - 24, PxOf(b.h), "")>>
    \o [k \in 1..Len(SelectSeq(b.fills, LAMBDA f : (w - 24) * PctOf(f) > 0)) |->
           ShapeRatW("fill", left + 12, y,
                     (w - 24) * PctOf(SelectSeq(b.fills,
                                  LAMBDA f : (w - 24) * PctOf(f) > 0)[k]),
                     100, PxOf(b.h), "")]
    \o [k \in 1..Len(SelectSeq(b.spans, LAMBDA t : t \in PctLabels)) |->
           Shape("label", left + (w - 24) - 60, y, 72, PxOf(b.h),
                 SelectSeq(b.spans, LAMBDA t : t \in PctLabels)[k])]

RECURSIVE BarsTrace(_, _, _, _)
BarsTrace(bars, left, y, w) ==
    IF Len(bars) = 0 THEN <<>>
    ELSE IF BarDrawn(Head(bars))
    THEN BarTrace(Head(bars), left, y, w)
         \o BarsTrace(Tail(bars), left, y + PxOf(Head(bars).h) + 8, w)
    ELSE BarsTrace(Tail(bars), left, y, w)

PlanningWithBox(div, ext) ==
    LET top == PxOf(div.st.top)
        left == PxOf(div.st.left)
        w == ResolveWidth(div.st.width, PLANNING_DEFAULT_W, SLIDE_W_PX)
        boxes == ChromeBox(div, ext)
    IN  IF Len(boxes) = 0 THEN <<>>
        ELSE LET y == IF PxOf(boxes[1].st.top) > 0
                      THEN PxOf(boxes[1].st.top) ELSE top + PLANNING_GAP
             IN  RaiseIf(PxRaises(boxes[1].st.top))
                 \o BarsTrace(boxes[1].content.bars, left, y, w)

\* _has_progress_bar: a child of the box holds a rounded, filled inner div
\* with a height.
HasProgressBar(box) ==
    Len(box.content.bars) > 0

(***************************************************************************)
(* SlideRenderer._positioned_blocks                                        *)
(***************************************************************************)
Min2(a, b) ==
    IF a < b THEN a ELSE b

\* A mutant of FindSiblingBox: the lookahead reaches three entries.
FindSiblingBoxThree(ch, k) ==
    LET cands == {j \in (k + 1)..Min2(k + 3, Len(ch)) :
                    ClsHas(ch[j].cls, "section-box")
                    \/ ClsHas(ch[j].cls, "trend-box")}
    IN  IF cands = {} THEN 0
        ELSE CHOOSE j \in cands : \A j2 \in cands : j <= j2

\* _find_sibling_box: the index of the first of the next two entries of the
\* flat child list whose class marks a content box, 0 when there is none.
FindSiblingBox(ch, k) ==
    LET cands == {j \in (k + 1)..Min2(k + 2, Len(ch)) :
                    ClsHas(ch[j].cls, "section-box")
                    \/ ClsHas(ch[j].cls, "trend-box")}
    IN  IF cands = {} THEN 0
        ELSE CHOOSE j \in cands : \A j2 \in cands : j <= j2

\* _is_legend_div.
IsLegendDiv(div) ==
    /\ div.st.bottom.k # "none"
    /\ ~div.hdr
    /\ div.legendSpan

\* cssselect('table') below a top-level div.
DivTables(div) ==
    div.content.tables
    \o (IF Len(div.boxes) > 0 THEN div.boxes[1].content.tables ELSE <<>>)

\* The `continue` cases of the loop body, up to the section-box / trend-box
\* class tests.
Skipped(ch, k, proc) ==
    LET div == ch[k]
    IN  \/ div.tag # "div"
        \/ k \in proc
        \/ ~div.st.pos /\ ~(div.st.top.k # "none" /\ div.st.left.k # "none")
        \/ div.footer
        \/ ClsHas(div.cls, "footer-bar") \/ ClsHas(div.cls, "bottom-bar")
        \/ div.cls = {"footer"}
        \/ ClsHas(div.cls, "page-number") \/ ClsHas(div.cls, "logo")
        \/ ClsHas(div.cls, "top-bar") \/ ClsHas(div.cls, "date-box")
        \/ ClsHas(div.cls, "main-title")
        \/ IsLegendDiv(div)
        \/ div.links > 0 /\ ~div.hdr
        \/ ClsHas(div.cls, "section-box")
        \/ ClsHas(div.cls, "trend-box")

\* The box of a header div: its first nested .section-box, else the sibling
\* _find_sibling_box returns; a sequence of at most one box.
ResolvedBox(ch, k) ==
    IF Len(ch[k].boxes) > 0 THEN <<ch[k].boxes[1]>>
    ELSE IF FindSiblingBox(ch, k) > 0 THEN <<AsBox(ch[FindSiblingBox(ch, k)])>>
    ELSE <<>>

\* The has_section branch.
SectionTrace(ch, k, sheet) ==
    LET div == ch[k]
        box == ResolvedBox(ch, k)
    IN  IF Len(box) > 0 /\ HasProgressBar(box[1])
        THEN SectionChrome(div, <<>>, sheet) \o PlanningWithBox(div, box)
        ELSE IF Len(box) > 0 /\ Len(box[1].content.tables) > 0
        THEN SectionChrome(div, <<>>, sheet)
             \o RenderTable(TableArgs(box[1].content.tables[1],
                    PxOf(div.st.left), PxOf(div.st.top) + BOX_GAP,
                    ResolveWidth(div.st.width, SECTION_DEFAULT_W, SLIDE_W_PX)))
        ELSE IF Len(box) > 0
        THEN SectionFullWithBox(div, box, sheet)
        ELSE SectionChrome(div, <<>>, sheet)

\* _standalone_table.
StandaloneTable(div) ==
    LET top == PxOf(div.st.top)
        left == PxOf(div.st.left)
        w0 == ResolveWidth(div.st.width, 0, SLIDE_W_PX)
        w1 == IF w0 = 0 THEN SLIDE_W_PX - left - 20 ELSE w0
        tw == ResolveWidth(DivTables(div)[1].tblw, 0, w1)
    IN  RaiseIf(PxRaises(div.st.top))
        \o RaiseIf(PxRaises(div.st.left))
        \o RaiseIf(WidthRaises(div.st.width))
        \o RenderTable(TableArgs(DivTables(div)[1], left, top,
                                 IF tw > 0 THEN tw ELSE w1))

\* One iteration of the loop over all_children.
BlockTrace(ch, k, proc, sheet) ==
    IF Skipped(ch, k, proc) THEN <<>>
    ELSE IF ch[k].hdr THEN SectionTrace(ch, k, sheet)
    ELSE IF Len(DivTables(ch[k])) > 0 THEN StandaloneTable(ch[k])
    ELSE <<>>

\* processed after the iteration: _find_sibling_box adds the box it returns.
ProcessedAfter(ch, k, proc) ==
    IF ~Skipped(ch, k, proc) /\ ch[k].hdr /\ Len(ch[k].boxes) = 0
       /\ FindSiblingBox(ch, k) > 0
    THEN proc \cup {FindSiblingBox(ch, k)}
    ELSE proc

\* A mutant of BlocksTrace: the later children are rendered first.
RECURSIVE BlocksTraceLastFirst(_, _, _, _)
BlocksTraceLastFirst(ch, k, proc, sheet) ==
    IF k > Len(ch) THEN <<>>
    ELSE BlocksTraceLastFirst(ch, k + 1, ProcessedAfter(ch, k, proc), sheet)
         \o BlockTrace(ch, k, proc, sheet)

\* The whole loop from index k on.
RECURSIVE BlocksTrace(_, _, _, _)
BlocksTrace(ch, k, proc, sheet) ==
    IF k > Len(ch) THEN <<>>
    ELSE BlockTrace(ch, k, proc, sheet)
         \o BlocksTrace(ch, k + 1, ProcessedAfter(ch, k, proc), sheet)

(***************************************************************************)
(* Inputs of the section machine                                           *)
(***************************************************************************)
Sheet(boxH, titleFs) ==
    [boxH |-> boxH, titleFs |-> titleFs]

NoSheet == Sheet(NoVal, NoVal)

TextContent == [NoContent EXCEPT !.text = "$150,000"]
ParaContent == [NoContent EXCEPT !.kids = <<Kid("p", "$150,000")>>]
TableContent ==
    [NoContent EXCEPT !.tables =
        <<TableEl(NoVal, <<Cell(Px(200), <<>>), Cell(NoVal, <<>>)>>, <<2>>)>>]
PlanContent ==
    [NoContent EXCEPT !.bars = <<Bar(Px(16), <<Pct(50)>>, <<"50%">>)>>]
TrendContent == [NoContent EXCEPT !.items = <<"UP", "DOWN">>]

BoxContents == {TextContent, ParaContent, TableContent, PlanContent}

HeaderDiv(top, left, width, title, titleFs, boxes) ==
    El("div", {}, Style(TRUE, top, left, width, NoVal, NoVal), TRUE, title,
       titleFs, boxes, NoContent)

\* A decorative positioned div: no header, no table, no class.
Decor == El("div", {}, Style(TRUE, Px(10), Px(10), NoVal, NoVal, NoVal),
            FALSE, "", NoVal, <<>>, NoContent)

TopBox(cls, st, content) ==
    El("div", cls, st, FALSE, "", NoVal, <<>>, content)

\* The child lists built from one header and one box: the pairings.
Pairings(top, left, width, title, titleFs, h, c) ==
    LET plain == Style(FALSE, NoVal, NoVal, NoVal, h, NoVal)
        same == Style(TRUE, Px(top + BOX_GAP), Px(left), NoVal, h, NoVal)
        far == Style(TRUE, Px(300), Px(40), NoVal, h, NoVal)
        hd(boxes) == HeaderDiv(Px(top), Px(left), width, title, titleFs, boxes)
    IN  { <<hd(<<BoxEl({"section-box"}, plain, c)>>)>>,
          <<hd(<<BoxEl({"section-box"}, far, c)>>)>>,
          <<hd(<<>>), TopBox({"section-box"}, plain, c)>>,
          <<hd(<<>>), TopBox({"section-box"}, same, c)>>,
          <<hd(<<>>), TopBox({"section-box"}, far, c)>>,
          <<hd(<<>>), Decor, TopBox({"section-box"}, same, c)>>,
          <<hd(<<>>), Decor, Decor, TopBox({"section-box"}, same, c)>>,
          <<hd(<<>>)>> }

\* Child lists with several headers and boxes, a lone top-level box, and
\* section headers carrying a class of their own.
Para(text) ==
    [NoContent EXCEPT !.kids = <<Kid("p", text)>>]

OwnBox(top, left, text) ==
    TopBox({"section-box"}, Style(TRUE, Px(top), Px(left), NoVal, Px(80), NoVal),
           Para(text))

Header(top, left, title) ==
    HeaderDiv(Px(top), Px(left), Px(400), title, NoVal, <<>>)

ClassedHeader(cls, title) ==
    [HeaderDiv(Px(85), Px(20), Px(400), title, NoVal,
               <<BoxEl({"section-box"},
                       Style(FALSE, NoVal, NoVal, NoVal, Px(80), NoVal),
                       Para("items"))>>)
     EXCEPT !.cls = cls]

\* A positioned table holder with a bottom offset and a coloured indicator
\* span, with or without a top offset.
IndicatorBlock(top) ==
    [El("div", {}, Style(TRUE, top, Px(30), NoVal, NoVal, Px(50)), FALSE, "",
        NoVal, <<>>, TableContent)
     EXCEPT !.legendSpan = TRUE]

MultiInputs ==
    { <<Header(85, 20, "ONE"), Header(85, 500, "TWO"),
        OwnBox(105, 20, "one"), OwnBox(105, 500, "two")>>,
      <<Header(85, 20, "ONE"), OwnBox(105, 20, "one"),
        Header(85, 500, "TWO"), OwnBox(105, 500, "two")>>,
      <<Header(85, 20, "ONE"), OwnBox(105, 20, "one"), OwnBox(105, 500, "two")>>,
      <<Header(85, 20, "ONE"), Decor, OwnBox(105, 20, "one"), OwnBox(105, 500, "two")>>,
      <<OwnBox(105, 20, "one")>>,
      <<ClassedHeader({"card"}, "CARD")>>,
      <<ClassedHeader({"catalogo"}, "CATALOG")>>,
      <<ClassedHeader({"logo"}, "LOGO")>>,
      <<ClassedHeader({"card", "main-title"}, "TITLE")>>,
      <<Decor>>,
      <<IndicatorBlock(Px(100))>>,
      <<IndicatorBlock(NoVal)>>,
      <<HeaderDiv(Px(85), Px(20), Px(580), "PLAN", NoVal,
                  <<BoxEl({"section-box"},
                          Style(FALSE, NoVal, NoVal, NoVal, Px(80), NoVal),
                          [PlanContent EXCEPT !.tables = TableContent.tables])>>)>> }

SectionInputs ==
    MultiInputs
    \cup UNION { Pairings(85, 20, width, title, titleFs, h, c) :
                width \in {Px(580), NoVal, Bad},
                title \in {"BUDGET", ""},
                titleFs \in {NoVal, Bad},
                h \in {Px(80), NoVal},
                c \in BoxContents }
    \cup { <<HeaderDiv(Px(85), Px(20), Px(580), "TREND", NoVal, <<>>),
             TopBox({"trend-box"},
                    Style(TRUE, Px(105), Px(20), NoVal, NoVal, NoVal),
                    TrendContent)>>,
           <<El("div", {}, Style(TRUE, Px(100), Px(30), NoVal, NoVal, NoVal),
                FALSE, "", NoVal, <<>>, TableContent)>>,
           <<El("div", {}, Style(TRUE, Px(100), Px(30), Bad, NoVal, NoVal),
                FALSE, "", NoVal, <<>>, TableContent)>> }

SectionIdle ==
    /\ spc = "idle"
    /\ ss = NoSheet
    /\ children = <<>>
    /\ idx = 0
    /\ processed = {}
    /\ shapes = <<>>

SectionInit ==
    /\ spc = "loop"
    /\ ss \in {Sheet(bh, NoVal) : bh \in {NoVal, Px(60)}}
    /\ children \in SectionInputs
    /\ idx = 1
    /\ processed = {}
    /\ shapes = <<>>

\* An iteration that ends in one of the `continue` statements.
BlockSkip ==
    /\ spc = "loop"
    /\ idx <= Len(children)
    /\ Skipped(children, idx, processed)
    /\ idx' = idx + 1
    /\ UNCHANGED <<spc, ss, children, processed, shapes>>

\* An iteration on a div that is neither a section nor a table holder.
BlockIgnored ==
    /\ spc = "loop"
    /\ idx <= Len(children)
    /\ ~Skipped(children, idx, processed)
    /\ ~children[idx].hdr
    /\ Len(DivTables(children[idx])) = 0
    /\ idx' = idx + 1
    /\ UNCHANGED <<spc, ss, children, processed, shapes>>

\* An iteration that renders a section or a standalone table to its end.
BlockRender ==
    /\ spc = "loop"
    /\ idx <= Len(children)
    /\ ~Skipped(children, idx, processed)
    /\ children[idx].hdr \/ Len(DivTables(children[idx])) > 0
    /\ ~Raised(BlockTrace(children, idx, processed, ss))
    /\ shapes' = shapes \o BlockTrace(children, idx, processed, ss)
    /\ processed' = ProcessedAfter(children, idx, processed)
    /\ idx' = idx + 1
    /\ UNCHANGED <<spc, ss, children>>

\* An iteration in which a renderer raises: the shapes added before the
\* raise stay on the slide and the exception leaves _positioned_blocks.
BlockRaise ==
    /\ spc = "loop"
    /\ idx <= Len(children)
    /\ ~Skipped(children, idx, processed)
    /\ children[idx].hdr \/ Len(DivTables(children[idx])) > 0
    /\ Raised(BlockTrace(children, idx, processed, ss))
    /\ shapes' = shapes \o Emitted(BlockTrace(children, idx, processed, ss))
    /\ processed' = ProcessedAfter(children, idx, processed)
    /\ spc' = "raised"
    /\ UNCHANGED <<ss, children, idx>>

\* The loop is exhausted.
BlocksDone ==
    /\ spc = "loop"
    /\ idx > Len(children)
    /\ spc' = "done"
    /\ UNCHANGED <<ss, children, idx, processed, shapes>>

(***************************************************************************)
(* SlideRenderer._chrome, _legend, _links                                  *)
(*                                                                         *)
(* A slide is [topbar, datebox, title, footer, children]: what             *)
(* cssselect('.top-bar'), '.date-box', '.main-title' and the footer        *)
(* selectors return (sequences, the code reads element 0), and its direct  *)
(* children.  The inputs declare no stylesheet rule for the chrome         *)
(* classes, so each chrome property is its inline value or the code's      *)
(* default.                                                                *)
(***************************************************************************)
PxOr(v, d) ==
    PxOf(OrVal(v, Px(d)))

ChromeTrace(sl) ==
    (IF Len(sl.topbar) > 0
     THEN RaiseIf(PxRaises(sl.topbar[1]))
          \o <<Shape("topbar", 0, 0, SLIDE_W_PX,
                     IF PxOf(sl.topbar[1]) # 0 THEN PxOf(sl.topbar[1]) ELSE 8,
                     "")>>
     ELSE <<>>)
    \o (IF Len(sl.datebox) > 0
        THEN LET db == sl.datebox[1]
                 w == PxOr(db.st.width, 100)
                 h == PxOr(db.st.height, 50)
                 top == PxOr(db.st.top, 8)
                 left == SLIDE_W_PX - w - PxOr(db.right, 0)
             IN  RaiseIf(PxRaises(db.st.width)) \o RaiseIf(PxRaises(db.st.height))
                 \o RaiseIf(PxRaises(db.st.top)) \o RaiseIf(PxRaises(db.right))
                 \o <<Shape("datebox", left, top, w, h, ""),
                      Shape("datetext", left, top, w, h, db.text)>>
        ELSE <<>>)
    \o (IF Len(sl.title) > 0
        THEN LET t == sl.title[1]
                 fs == PxOr(t.fs, 42)
             IN  RaiseIf(PxRaises(t.fs)) \o RaiseIf(PxRaises(t.st.left))
                 \o RaiseIf(PxRaises(t.st.top))
                 \o <<[Shape("maintitle", PxOr(t.st.left, 30), PxOr(t.st.top, 20),
                             800, 0, t.text)
                       EXCEPT !.h = ERat(fs * 14, 10)]>>
        ELSE <<>>)
    \o (IF Len(sl.footer) > 0
        THEN LET fb == sl.footer[1]
                 h == PxOr(fb.h, 32)
                 top == SLIDE_H_PX - h
             IN  RaiseIf(PxRaises(fb.h))
                 \o <<Shape("footer", 0, top, SLIDE_W_PX, h, "")>>
                 \o (IF Len(fb.pn) > 0
                     THEN <<Shape("pagenumber", 20, top, 100, h, fb.pn[1])>>
                     ELSE <<>>)
                 \o (IF Len(fb.logo) > 0
                     THEN <<Shape("logo", SLIDE_W_PX - 140, top, 120, h, fb.logo[1])>>
                     ELSE <<>>)
        ELSE <<>>)

\* _legend over the slide's top-level legend divs.
RECURSIVE LegendTrace(_)
LegendTrace(ch) ==
    IF Len(ch) = 0 THEN <<>>
    ELSE (IF Head(ch).tag = "div" /\ IsLegendDiv(Head(ch))
          THEN RaiseIf(PxRaises(Head(ch).st.bottom))
               \o RaiseIf(PxRaises(Head(ch).st.left))
               \o <<Shape("legend", PxOr(Head(ch).st.left, 30),
                          SLIDE_H_PX - PxOr(Head(ch).st.bottom, 50) - 20,
                          800, 20, Head(ch).content.text)>>
          ELSE <<>>)
         \o LegendTrace(Tail(ch))

\* First loop of _links: cssselect('div[style]') visits every div of the
\* slide in document order, a div before the divs nested in it (el.nested:
\* the positioned divs below el; el.links counts every a.link-text below
\* el, those of its nested divs included).  Each positioned div without a
\* section header renders all the anchors below it at its own bottom-left
\* anchor.
RECURSIVE DivLinksTrace(_)
DivLinksTrace(ch) ==
    IF Len(ch) = 0 THEN <<>>
    ELSE (IF Head(ch).tag = "div" /\ Head(ch).st.pos /\ Head(ch).links > 0
             /\ ~Head(ch).hdr
          THEN RaiseIf(PxRaises(Head(ch).st.bottom))
               \o RaiseIf(PxRaises(Head(ch).st.left))
               \o [k \in 1..Head(ch).links |->
                      Shape("link", PxOr(Head(ch).st.left, 30),
                            SLIDE_H_PX - PxOr(Head(ch).st.bottom, 60) - 15,
                            300, 15, "link")]
          ELSE <<>>)
         \o DivLinksTrace(Head(ch).nested)
         \o DivLinksTrace(Tail(ch))

\* Second loop of _links: the a.link-text anchors that are direct children
\* of the slide.
RECURSIVE DirectLinksTrace(_)
DirectLinksTrace(ch) ==
    IF Len(ch) = 0 THEN <<>>
    ELSE (IF Head(ch).tag = "a" /\ "link-text" \in Head(ch).cls
          THEN LET a == Head(ch)
                   ty == IF PxOf(a.st.top) > 0 THEN PxOf(a.st.top)
                         ELSE IF PxOf(a.st.bottom) > 0
                         THEN SLIDE_H_PX - PxOf(a.st.bottom) - 15
                         ELSE SLIDE_H_PX - 75
               IN  RaiseIf(PxRaises(a.st.top)) \o RaiseIf(PxRaises(a.st.left))
                   \o RaiseIf(PxRaises(a.st.bottom))
                   \o <<Shape("link", PxOr(a.st.left, 30), ty, 300, 15,
                              a.content.text)>>
          ELSE <<>>)
         \o DirectLinksTrace(Tail(ch))

LinksTrace(ch) ==
    DivLinksTrace(ch) \o DirectLinksTrace(ch)

\* SlideRenderer.render: _chrome, _positioned_blocks, _legend, _links.
SlideTrace(sl, sheet) ==
    ChromeTrace(sl) \o BlocksTrace(sl.children, 1, {}, sheet)
    \o LegendTrace(sl.children) \o LinksTrace(sl.children)

(***************************************************************************)
(* html_to_pptx                                                            *)
(*                                                                         *)
(* The input is [kind, sheet, slides]: kind "empty" is a string            *)
(* lxml_html.fromstring rejects with ParserError (the empty string,        *)
(* whitespace only), kind "markup" one it parses; slides is what           *)
(* doc.cssselect('div.slide') returns.                                     *)
(***************************************************************************)
Placeholder == Shape("error", 30, 250, 900, 40, "Slide rendering error")

\* `if not slide_els`
NoSlidesNever(els) ==
    FALSE

NoSlides(els) ==
    Len(els) = 0

\* A mutant of AfterExcept: the error text goes on a slide added for it.
AfterExceptOnNewSlide(o, k) ==
    Append(o, <<Placeholder>>)

\* The except clause: the error text box is added to the slide being
\* rendered, after whatever the renderer had already added to it.
AfterExcept(o, k) ==
    [o EXCEPT ![k] = Append(@, Placeholder)]

Html(kind, sheet, slides) ==
    [kind |-> kind, sheet |-> sheet, slides |-> slides]

NoHtml == Html("none", NoSheet, <<>>)

Slide(topbar, datebox, title, footer, ch) ==
    [topbar |-> topbar, datebox |-> datebox, title |-> title,
     footer |-> footer, children |-> ch]

BudgetSection ==
    HeaderDiv(Px(85), Px(20), Px(580), "BUDGET", NoVal,
              <<BoxEl({"section-box"},
                      Style(FALSE, NoVal, NoVal, NoVal, Px(80), NoVal),
                      ParaContent)>>)

BadSection ==
    HeaderDiv(Px(200), Px(20), Bad, "RISKS", NoVal, <<>>)

BadTitleSection ==
    HeaderDiv(Px(200), Px(20), Px(400), "RISKS", Bad, <<>>)

LegendDiv(left) ==
    [El("div", {}, Style(TRUE, NoVal, left, NoVal, NoVal, Px(50)), FALSE, "",
        NoVal, <<>>, [NoContent EXCEPT !.text = "On track"])
     EXCEPT !.legendSpan = TRUE]

LinkAnchor(top) ==
    El("a", {"link-text"}, Style(FALSE, top, NoVal, NoVal, NoVal, NoVal),
       FALSE, "", NoVal, <<>>, [NoContent EXCEPT !.text = "Open project"])

\* A positioned div holding n a.link-text anchors, and the positioned divs
\* nested in it.
LinkBox(left, bottom, n, nested) ==
    [El("div", {}, Style(TRUE, NoVal, left, NoVal, NoVal, bottom), FALSE, "",
        NoVal, <<>>, NoContent)
     EXCEPT !.links = n, !.nested = nested]

MainTitle == [fs |-> NoVal, st |-> NoStyle, text |-> "Flash report"]
DateBox == [st |-> NoStyle, right |-> NoVal, text |-> "2024-01-31"]
Footer == [h |-> NoVal, pn |-> <<"1">>, logo |-> <<"ACME">>]

SlideInputs ==
    { Slide(<<Px(8)>>, <<DateBox>>, <<MainTitle>>, <<Footer>>,
            <<BudgetSection, Header(200, 20, "RISKS"), OwnBox(220, 20, "late"),
              LegendDiv(Px(30)), LinkBox(Px(30), Px(60), 2, <<>>),
              LinkAnchor(NoVal)>>),
      Slide(<<>>, <<>>, <<>>, <<>>,
            <<BudgetSection,
              LinkBox(Px(30), Px(60), 1,
                      <<LinkBox(Px(40), Px(20), 1, <<>>)>>)>>),
      Slide(<<Bad>>, <<>>, <<MainTitle>>, <<>>, <<BudgetSection>>),
      Slide(<<Px(8)>>, <<>>, <<>>, <<>>, <<BudgetSection, BadSection>>),
      Slide(<<>>, <<>>, <<>>, <<>>, <<BadTitleSection>>),
      Slide(<<NoVal>>, <<[DateBox EXCEPT !.right = Px(20), !.st.width = Px(120)]>>,
            <<>>, <<>>, <<BudgetSection, LegendDiv(Bad)>>),
      Slide(<<>>, <<>>, <<>>, <<[Footer EXCEPT !.h = Px(40)]>>,
            <<LinkAnchor(Bad)>>) }

HtmlInputs ==
    { Html("empty", NoSheet, <<>>) }
    \cup { Html("markup", NoSheet, sls) : sls \in SeqsUpTo(SlideInputs, MaxSlides) }

\* The outcome of a call: how it ended, the slides of its presentation, the
\* error it raised.
Outcome(how, slides, error) ==
    [how |-> how, slides |-> slides, error |-> error]

NoOutcome == Outcome("none", <<>>, "")

\* A mutant of NewPresentation: the slides of the earlier call are kept.
ReusedPresentation(earlier) ==
    earlier.slides

\* prs = Presentation(): a presentation of its own for every call, with no
\* slide in it.
NewPresentation(earlier) ==
    <<>>

DocIdle ==
    /\ pc = "idle" /\ html = NoHtml /\ prs = "none" /\ i = 0 /\ out = <<>>
    /\ err = "" /\ result = "none" /\ prev = NoOutcome

DocInit ==
    /\ pc = "start"
    /\ html \in HtmlInputs
    /\ prs = "none"
    /\ i = 0
    /\ out = <<>>
    /\ err = ""
    /\ result = "none"
    /\ prev = NoOutcome

\* lxml_html.fromstring, _parse_stylesheet, _resolve_font, cssselect.
DocParse ==
    /\ pc = "start"
    /\ html.kind = "markup"
    /\ pc' = "parsed"
    /\ UNCHANGED <<prev, html, prs, i, out, err, result>>

\* lxml_html.fromstring raises; nothing in html_to_pptx catches it.
DocParseError ==
    /\ pc = "start"
    /\ html.kind = "empty"
    /\ err' = "ParserError"
    /\ pc' = "raised"
    /\ UNCHANGED <<prev, html, prs, i, out, result>>

\* raise ValueError("No slides found in HTML ...")
DocNoSlides ==
    /\ pc = "parsed"
    /\ NoSlides(html.slides)
    /\ err' = "NoSlides"
    /\ pc' = "raised"
    /\ UNCHANGED <<prev, html, prs, i, out, result>>

\* prs = Presentation(), slide size, blank layout.
DocCreate ==
    /\ pc = "parsed"
    /\ ~NoSlides(html.slides)
    /\ prs' = "created"
    /\ out' = NewPresentation(prev)
    /\ i' = 1
    /\ pc' = "loop"
    /\ UNCHANGED <<prev, html, err, result>>

\* sl = prs.slides.add_slide(blank)
DocAddSlide ==
    /\ pc = "loop"
    /\ i <= Len(html.slides)
    /\ out' = Append(out, <<>>)
    /\ pc' = "chrome"
    /\ UNCHANGED <<prev, html, prs, i, err, result>>

\* One of the four calls of SlideRenderer.render, inside the try: its shapes
\* up to a raise are added to the current slide.
RenderStep(at, tr, next) ==
    /\ pc = at
    /\ out' = [out EXCEPT ![Len(out)] = @ \o Emitted(tr)]
    /\ pc' = IF Raised(tr) THEN "except" ELSE next
    /\ i' = IF ~Raised(tr) /\ next = "loop" THEN i + 1 ELSE i
    /\ UNCHANGED <<prev, html, prs, err, result>>

DocChrome ==
    RenderStep("chrome", ChromeTrace(html.slides[i]), "blocks")

DocBlocks ==
    RenderStep("blocks", BlocksTrace(html.slides[i].children, 1, {}, html.sheet),
               "legend")

DocLegend ==
    RenderStep("legend", LegendTrace(html.slides[i].children), "links")

DocLinks ==
    RenderStep("links", LinksTrace(html.slides[i].children), "loop")

\* except Exception: the error text box, then the next slide.
DocExcept ==
    /\ pc = "except"
    /\ out' = AfterExcept(out, i)
    /\ i' = i + 1
    /\ pc' = "loop"
    /\ UNCHANGED <<prev, html, prs, err, result>>

\* prs.save(buffer); return buffer.read()
DocSave ==
    /\ pc = "loop"
    /\ i > Len(html.slides)
    /\ result' = "bytes"
    /\ pc' = "done"
    /\ UNCHANGED <<prev, html, prs, i, out, err>>

(***************************************************************************)
(* Style helpers called on their own: _px, _pct, _resolve_width,           *)
(* _parse_color, _is_light                                                 *)
(*                                                                         *)
(* A colour string is [cs, fn, r, g, b].  With fn = "" it is the sequence  *)
(* cs of its characters.  With fn = "rgb" or "rgba" it is functional       *)
(* notation whose three leading arguments are the digit runs r, g, b (what *)
(* the (\d+) groups capture); letter case of the function name is folded   *)
(* by lower() and what follows the third number is not read.               *)
(***************************************************************************)
NoneRet == [k |-> "none", n |-> 0, c |-> <<>>, b |-> FALSE]
RaiseRet == [k |-> "raise", n |-> 0, c |-> <<>>, b |-> FALSE]

Num(n) ==
    [k |-> "num", n |-> n, c |-> <<>>, b |-> FALSE]

Bool(b) ==
    [k |-> "bool", n |-> 0, c |-> <<>>, b |-> b]

\* pptx.dml.color.RGBColor(r, g, b): a tuple, ValueError unless every value
\* is an int in 0..255.
RGBColor(r, g, b) ==
    IF r > 255 \/ g > 255 \/ b > 255 THEN RaiseRet
    ELSE [k |-> "rgb", n |-> 0, c |-> <<r, g, b>>, b |-> FALSE]

LowerLetters ==
    <<"a", "b", "c", "d", "e", "f", "g", "h", "i", "k", "l", "n", "p", "r",
      "s", "t", "u", "w">>

UpperLetters ==
    <<"A", "B", "C", "D", "E", "F", "G", "H", "I", "K", "L", "N", "P", "R",
      "S", "T", "U", "W">>

HexChars ==
    <<"0", "1", "2", "3", "4", "5", "6", "7", "8", "9",
      "a", "b", "c", "d", "e", "f">>

ToLower(ch) ==
    IF \E k \in DOMAIN UpperLetters : UpperLetters[k] = ch
    THEN LowerLetters[CHOOSE k \in DOMAIN UpperLetters : UpperLetters[k] = ch]
    ELSE ch

ToUpper(ch) ==
    IF \E k \in DOMAIN LowerLetters : LowerLetters[k] = ch
    THEN UpperLetters[CHOOSE k \in DOMAIN LowerLetters : LowerLetters[k] = ch]
    ELSE ch

\* str.lower()
Lower(cs) ==
    [k \in DOMAIN cs |-> ToLower(cs[k])]

Upper(cs) ==
    [k \in DOMAIN cs |-> ToUpper(cs[k])]

\* str.strip()
RECURSIVE Strip(_)
Strip(cs) ==
    IF Len(cs) = 0 THEN cs
    ELSE IF Head(cs) = " " THEN Strip(Tail(cs))
    ELSE IF cs[Len(cs)] = " " THEN Strip(SubSeq(cs, 1, Len(cs) - 1))
    ELSE cs

\* A mutant of Normalise: the case of the letters is kept.
NormaliseKeepCase(cs) ==
    Strip(cs)

\* s.strip().lower()
Normalise(cs) ==
    Lower(Strip(cs))

IsHexChar(ch) ==
    \E k \in DOMAIN HexChars : HexChars[k] = ch

\* int(h, 16) on one or two characters of [0-9a-f].
HexVal(ch) ==
    (CHOOSE k \in DOMAIN HexChars : HexChars[k] = ch) - 1

HexByte(hi, lo) ==
    16 * HexVal(hi) + HexVal(lo)

\* re.match(r'#([0-9a-f]{n})$', s)
IsHex(t, n) ==
    /\ Len(t) = n + 1
    /\ t[1] = "#"
    /\ \A k \in 2..(n + 1) : IsHexChar(t[k])

NameWhite == <<"w", "h", "i", "t", "e">>
NameBlack == <<"b", "l", "a", "c", "k">>
NameRed == <<"r", "e", "d">>
NameGreen == <<"g", "r", "e", "e", "n">>
NameBlue == <<"b", "l", "u", "e">>
NameTransparent == <<"t", "r", "a", "n", "s", "p", "a", "r", "e", "n", "t">>

\* The _NAMED table.
Named(t) ==
    IF t = NameWhite THEN RGBColor(255, 255, 255)
    ELSE IF t = NameBlack THEN RGBColor(0, 0, 0)
    ELSE IF t = NameRed THEN RGBColor(255, 0, 0)
    ELSE IF t = NameGreen THEN RGBColor(0, 128, 0)
    ELSE IF t = NameBlue THEN RGBColor(0, 0, 255)
    ELSE NoneRet

InNamed(t) ==
    t \in {NameWhite, NameBlack, NameRed, NameGreen, NameBlue, NameTransparent}

ColorStr(cs) ==
    [cs |-> cs, fn |-> "", r |-> 0, g |-> 0, b |-> 0]

ColorFn(fn, r, g, b) ==
    [cs |-> <<>>, fn |-> fn, r |-> r, g |-> g, b |-> b]

ParseColor(s) ==
    IF s.fn = "" /\ Len(s.cs) = 0 THEN NoneRet
    ELSE IF s.fn \in {"rgb", "rgba"} THEN RGBColor(s.r, s.g, s.b)
    ELSE LET t == Normalise(s.cs)
         IN  IF InNamed(t) THEN Named(t)
             ELSE IF IsHex(t, 6)
             THEN RGBColor(HexByte(t[2], t[3]), HexByte(t[4], t[5]),
                           HexByte(t[6], t[7]))
             ELSE IF IsHex(t, 3)
             THEN RGBColor(HexByte(t[2], t[2]), HexByte(t[3], t[3]),
                           HexByte(t[4], t[4]))
             ELSE NoneRet

\* The colours on which the binary64 evaluation of
\* 0.299*c[0] + 0.587*c[1] + 0.114*c[2] differs in its comparison with 180
\* from the exact sum: both have the exact sum 180 and evaluate to
\* 180.00000000000003 (checked over all 256^3 colours).
RoundsAbove ==
    { <<123, 237, 36>>, <<220, 194, 3>> }

IsLight(c) ==
    \/ 299 * c[1] + 587 * c[2] + 114 * c[3] > 180000
    \/ c \in RoundsAbove

\* _px, _pct and _resolve_width as calls: the number returned, or the
\* ValueError of float().
PxCall(v) ==
    IF PxRaises(v) THEN RaiseRet ELSE Num(PxOf(v))

PctCall(v) ==
    Num(PctOf(v))

ResolveWidthCall(v, default, container_w) ==
    IF WidthRaises(v) THEN RaiseRet ELSE Num(ResolveWidth(v, default, container_w))

ParseColorCall(s) ==
    ParseColor(s)

IsLightCall(c) ==
    Bool(IsLight(c))

(***************************************************************************)
(* Inputs of the helper machine                                            *)
(***************************************************************************)
NoStr == ColorStr(<<>>)

Call(fn, v, default, container_w, s, c) ==
    [fn |-> fn, v |-> v, default |-> default, container_w |-> container_w,
     s |-> s, c |-> c]

NoCall == Call("none", NoVal, 0, 0, NoStr, <<>>)

Numbers == {0, 25, 50, 100, 400}

CssInputs ==
    {NoVal, Word, Bad} \cup {Px(n) : n \in Numbers} \cup {Pct(n) : n \in Numbers}

HexPairs ==
    { <<"0", "0">>, <<"f", "f">>, <<"F", "F">>, <<"8", "0">>, <<"c", "D">> }

HexDigits == {"0", "8", "a", "F", "c"}

Names ==
    {NameWhite, NameBlack, NameRed, NameGreen, NameBlue, NameTransparent}

Capitalised(cs) ==
    [k \in DOMAIN cs |-> IF k = 1 THEN ToUpper(cs[k]) ELSE cs[k]]

Channels == {0, 128, 255, 300}

ColorInputs ==
    { ColorStr(<<"#">> \o x \o y \o z) : x \in HexPairs, y \in HexPairs, z \in HexPairs }
    \cup { ColorStr(<<"#", x, y, z>>) : x \in HexDigits, y \in HexDigits, z \in HexDigits }
    \cup { ColorStr(n) : n \in Names }
    \cup { ColorStr(Upper(n)) : n \in Names }
    \cup { ColorStr(Capitalised(n)) : n \in Names }
    \cup { ColorStr(cs) : cs \in { <<>>, <<" ">>, <<" ", "R", "e", "d", " ">>,
                                   <<"#", "g", "g", "0", "0", "0", "0">>,
                                   <<"#", "f", "f", "f", "f">>,
                                   <<"a", "u", "t", "o">> } }
    \cup { ColorFn(fn, r, g, b) : fn \in {"rgb", "rgba"},
                                  r \in Channels, g \in Channels, b \in Channels }
    \cup { ColorFn("hsl", 0, 100, 50) }

LightChannels == {0, 3, 36, 123, 180, 181, 194, 220, 237, 255}

HelperCalls ==
    { Call("_px", v, 0, 0, NoStr, <<>>) : v \in CssInputs }
    \cup { Call("_pct", v, 0, 0, NoStr, <<>>) : v \in CssInputs }
    \cup { Call("_resolve_width", v, d, w, NoStr, <<>>) :
               v \in CssInputs, d \in {0, SECTION_DEFAULT_W}, w \in {400, SLIDE_W_PX} }
    \cup { Call("_parse_color", NoVal, 0, 0, s, <<>>) : s \in ColorInputs }
    \cup { Call("_is_light", NoVal, 0, 0, NoStr, <<r, g, b>>) :
               r \in LightChannels, g \in LightChannels, b \in LightChannels }

HelperIdle ==
    /\ fpc = "idle"
    /\ arg = NoCall
    /\ ret = NoneRet

HelperInit ==
    /\ fpc = "call"
    /\ arg \in HelperCalls
    /\ ret = NoneRet

Return(fn, value) ==
    /\ fpc = "call"
    /\ arg.fn = fn
    /\ ret' = value
    /\ fpc' = IF value.k = "raise" THEN "raised" ELSE "returned"
    /\ UNCHANGED arg

CallPx ==
    Return("_px", PxCall(arg.v))

CallPct ==
    Return("_pct", PctCall(arg.v))

CallResolveWidth ==
    Return("_resolve_width", ResolveWidthCall(arg.v, arg.default, arg.container_w))

CallParseColor ==
    Return("_parse_color", ParseColorCall(arg.s))

CallIsLight ==
    Return("_is_light", IsLightCall(arg.c))

SpecTableInit ==
    /\ TableInit
    /\ SectionIdle
    /\ DocIdle
    /\ HelperIdle

SpecTableNext ==
    \/ TableRender /\ UNCHANGED <<sectionVars, docVars, helperVars>>
    \/ TableSkip /\ UNCHANGED <<sectionVars, docVars, helperVars>>

SpecTable == SpecTableInit /\ [][SpecTableNext]_vars

SpecSectionInit ==
    /\ SectionInit
    /\ TableIdle
    /\ DocIdle
    /\ HelperIdle

SpecSectionNext ==
    \/ BlockSkip /\ UNCHANGED <<tableVars, docVars, helperVars>>
    \/ BlockIgnored /\ UNCHANGED <<tableVars, docVars, helperVars>>
    \/ BlockRender /\ UNCHANGED <<tableVars, docVars, helperVars>>
    \/ BlockRaise /\ UNCHANGED <<tableVars, docVars, helperVars>>
    \/ BlocksDone /\ UNCHANGED <<tableVars, docVars, helperVars>>

SpecSection == SpecSectionInit /\ [][SpecSectionNext]_vars

\* The caller converts the same string once more: every local of
\* html_to_pptx is gone, the input is the same.
DocCallAgain ==
    /\ pc \in {"done", "raised"}
    /\ prev = NoOutcome
    /\ prev' = Outcome(pc, out, err)
    /\ pc' = "start"
    /\ prs' = "none"
    /\ i' = 0
    /\ out' = <<>>
    /\ err' = ""
    /\ result' = "none"
    /\ UNCHANGED html

Init ==
    /\ DocInit
    /\ TableIdle
    /\ SectionIdle
    /\ HelperIdle

Next ==
    \/ DocParse /\ UNCHANGED <<tableVars, sectionVars, helperVars>>
    \/ DocParseError /\ UNCHANGED <<tableVars, sectionVars, helperVars>>
    \/ DocNoSlides /\ UNCHANGED <<tableVars, sectionVars, helperVars>>
    \/ DocCreate /\ UNCHANGED <<tableVars, sectionVars, helperVars>>
    \/ DocAddSlide /\ UNCHANGED <<tableVars, sectionVars, helperVars>>
    \/ DocChrome /\ UNCHANGED <<tableVars, sectionVars, helperVars>>
    \/ DocBlocks /\ UNCHANGED <<tableVars, sectionVars, helperVars>>
    \/ DocLegend /\ UNCHANGED <<tableVars, sectionVars, helperVars>>
    \/ DocLinks /\ UNCHANGED <<tableVars, sectionVars, helperVars>>
    \/ DocExcept /\ UNCHANGED <<tableVars, sectionVars, helperVars>>
    \/ DocSave /\ UNCHANGED <<tableVars, sectionVars, helperVars>>
    \/ DocCallAgain /\ UNCHANGED <<tableVars, sectionVars, helperVars>>

Spec == Init /\ [][Next]_vars

SpecHelpersInit ==
    /\ HelperInit
    /\ TableIdle
    /\ SectionIdle
    /\ DocIdle

SpecHelpersNext ==
    \/ CallPx /\ UNCHANGED <<tableVars, sectionVars, docVars>>
    \/ CallPct /\ UNCHANGED <<tableVars, sectionVars, docVars>>
    \/ CallResolveWidth /\ UNCHANGED <<tableVars, sectionVars, docVars>>
    \/ CallParseColor /\ UNCHANGED <<tableVars, sectionVars, docVars>>
    \/ CallIsLight /\ UNCHANGED <<tableVars, sectionVars, docVars>>

SpecHelpers == SpecHelpersInit /\ [][SpecHelpersNext]_vars

(***************************************************************************)
(* Claims about _render_table (checked under SpecTable)                    *)
(***************************************************************************)

\* C8: for every table, whatever the mix of explicit and implicit first-row
\* widths and whatever the later rows hold, the widths assigned to the grid
\* columns sum to the table's resolved width, within one EMU of rounding per
\* column.
C8_ColumnWidthsSumToTableWidth ==
    tpc = "rendered" =>
        Abs(SumSeq(tblOut.cols) - tblOut.w) <= Len(tblOut.cols)

C10_NoZeroOrNegativeColumn ==
    tpc = "rendered" => \A ci \in 1..Len(tblOut.cols) : tblOut.cols[ci] > 0

(***************************************************************************)
(* Claims about the section renderers (checked under SpecSection)          *)
(***************************************************************************)

\* The header div of the first child has been rendered to its end.
FirstSectionRendered ==
    /\ spc \in {"loop", "done"}
    /\ idx > 1
    /\ children[1].hdr
    /\ ~Skipped(children, 1, {})

\* The one-header, one-box child list in which the box follows the header as
\* a top-level sibling at the position a nested box would take (no offsets
\* of its own, or top = section top + 20 and left = section left).
SiblingAtEquivalentPosition ==
    /\ Len(children) = 2
    /\ children[1].hdr
    /\ Len(children[1].boxes) = 0
    /\ "section-box" \in children[2].cls
    /\ \/ children[2].st.top = NoVal /\ children[2].st.left = NoVal
       \/ /\ children[2].st.top = Px(children[1].st.top.n + 20)
          /\ children[2].st.left = children[1].st.left

\* The same header with the same box nested as its DOM child.
NestedTwin ==
    << [children[1] EXCEPT !.boxes =
           <<BoxEl(children[2].cls,
                   [children[2].st EXCEPT !.pos = FALSE, !.top = NoVal,
                                          !.left = NoVal],
                   children[2].content)>>] >>

\* C5: for every section kind (generic, table, planning) a header whose box
\* follows it as a top-level sibling at the equivalent position yields the
\* same shapes, with the same frames, as the header with the box nested.
C5_PairingInvariant ==
    (spc = "done" /\ SiblingAtEquivalentPosition) =>
        shapes = Emitted(BlocksTrace(NestedTwin, 1, {}, ss))

C7_BareBoxTextIsRendered ==
    ( /\ spc = "done"
      /\ children[1].hdr
      /\ Len(ResolvedBox(children, 1)) > 0
      /\ ResolvedBox(children, 1)[1].content.text # "" ) =>
        \E k, b \in 1..Len(shapes) :
            /\ shapes[b].kind = "box"
            /\ shapes[k].kind = "text"
            /\ shapes[k].text = ResolvedBox(children, 1)[1].content.text
            /\ shapes[k].x = shapes[b].x + 9525 * 8
            /\ shapes[k].y = shapes[b].y + 9525 * 8


(***************************************************************************)
(* Claims about html_to_pptx                                               *)
(***************************************************************************)
SlideRaises(k) ==
    Raised(SlideTrace(html.slides[k], html.sheet))

\* C1: a document with N slides yields a presentation of exactly N slides
\* in document order whether or not slides fail: once rendering has begun
\* the call never aborts, the slide being rendered is always the last one
\* added, and in the saved presentation every slide whose render did not
\* raise carries exactly the shapes of its own full render.
C1_OneSlidePerElementDespiteFailures ==
    /\ prs = "created" => pc # "raised"
    /\ pc \in {"chrome", "blocks", "legend", "links", "except"}
          => Len(out) = i /\ i <= Len(html.slides)
    /\ pc = "done"
          => /\ result = "bytes"
             /\ Len(out) = Len(html.slides)
             /\ \A k \in 1..Len(out) :
                    ~SlideRaises(k)
                        => out[k] = SlideTrace(html.slides[k], html.sheet)

\* A saved presentation in which a failing slide is followed by a slide
\* that rendered completely.
C1_Witness ==
    /\ pc = "done"
    /\ Len(out) = 3
    /\ SlideRaises(1) /\ SlideRaises(2) /\ ~SlideRaises(3)
    /\ Len(out[3]) > 1
    /\ out[3] = SlideTrace(html.slides[3], html.sheet)

\* C2: a slide whose render raised holds the error text box and nothing
\* else.
C2_FailedSlideHoldsOnlyErrorText ==
    pc = "done"
        => \A k \in 1..Len(out) : SlideRaises(k) => out[k] = <<Placeholder>>

C4_OnlyNoSlidesErrorEscapes ==
    pc = "raised" => err = "NoSlides"


(***************************************************************************)
(* Claims about the style helpers                                          *)
(***************************************************************************)
Returned(fn) ==
    fpc = "returned" /\ arg.fn = fn

\* C11: _resolve_width resolves "N%" to container_w * N / 100 and "Npx" to
\* N; a percentage is never returned as the bare number N.
C11_PercentOfContainer ==
    Returned("_resolve_width")
        => /\ arg.v.k = "pct" => 100 * ret.n = arg.container_w * arg.v.n
           /\ (arg.v.k = "px" /\ arg.v.n > 0) => ret.n = arg.v.n

\* C12: _px, _pct and _resolve_width never raise, and _resolve_width
\* returns the caller's default for an empty or unparseable value.
C12_NumericResolutionNeverRaises ==
    arg.fn \in {"_px", "_pct", "_resolve_width"}
        => /\ fpc # "raised"
           /\ (Returned("_resolve_width") /\ arg.v.k \in {"none", "word", "bad"})
                  => ret.n = arg.default

\* C13: _parse_color never raises and returns None or a triple with every
\* channel in 0..255; out-of-range functional notation gives None.
C13_ParseColorTotal ==
    arg.fn = "_parse_color"
        => /\ fpc # "raised"
           /\ fpc = "returned"
                  => \/ ret.k = "none"
                     \/ ret.k = "rgb" /\ \A k \in 1..3 : ret.c[k] \in 0..255
           /\ (fpc = "returned" /\ arg.s.fn \in {"rgb", "rgba"}
               /\ (arg.s.r > 255 \/ arg.s.g > 255 \/ arg.s.b > 255))
                  => ret.k = "none"

\* '#%02x%02x%02x' % c
ToHex6(c) ==
    <<"#", HexChars[(c[1] \div 16) + 1], HexChars[(c[1] % 16) + 1],
           HexChars[(c[2] \div 16) + 1], HexChars[(c[2] % 16) + 1],
           HexChars[(c[3] \div 16) + 1], HexChars[(c[3] % 16) + 1]>>

\* C14: a 6-digit hex colour in any letter case parses to the triple that
\* formats back to it, a 3-digit one to the triple of its doubled digits,
\* and a named colour to the triple of its lower-case spelling.
C14_HexRoundTripAndNamesIgnoreCase ==
    (Returned("_parse_color") /\ arg.s.fn = "")
        => LET low == Lower(arg.s.cs)
           IN  /\ IsHex(low, 6) => ret.k = "rgb" /\ ToHex6(ret.c) = low
               /\ IsHex(low, 3)
                      => /\ ret.k = "rgb"
                         /\ ToHex6(ret.c) = <<"#", low[2], low[2], low[3], low[3],
                                                   low[4], low[4]>>
               /\ low \in (Names \ {NameTransparent})
                      => /\ ret.k = "rgb"
                         /\ ret = ParseColor(ColorStr(low))
                         /\ low = NameGreen => ret.c = <<0, 128, 0>>
                         /\ low = NameWhite => ret.c = <<255, 255, 255>>

\* "#FFcD80" parsed to (255, 205, 128).
C14_Witness ==
    /\ Returned("_parse_color")
    /\ arg.s.cs = <<"#", "F", "F", "c", "D", "8", "0">>
    /\ ret.k = "rgb"
    /\ ret.c = <<255, 205, 128>>

\* C15: _is_light(c) is true exactly when 0.299 R + 0.587 G + 0.114 B > 180,
\* and a colour that is at least a light colour in every channel is light.
C15_LightExactlyAboveThreshold ==
    Returned("_is_light")
        => /\ ret.b <=> (299 * arg.c[1] + 587 * arg.c[2] + 114 * arg.c[3] > 180000)
           /\ ret.b => \A r \in LightChannels, g \in LightChannels, b \in LightChannels :
                           (r >= arg.c[1] /\ g >= arg.c[2] /\ b >= arg.c[3])
                               => IsLight(<<r, g, b>>)


(***************************************************************************)
(* Claims about sibling pairing and chrome exclusion                       *)
(***************************************************************************)
\* The class of a top-level element marks a content-box role.
HasBoxClass(el) ==
    ClsHas(el.cls, "section-box") \/ ClsHas(el.cls, "trend-box")

\* A header div of the flat list that the loop dispatches as a section and
\* that has no nested box.
BareHeader(k) ==
    /\ children[k].hdr
    /\ Len(children[k].boxes) = 0
    /\ ~Skipped(children, k, {})

\* C18: a header without a nested box consumes the first of the next two
\* entries of the flat list whose class marks a content box, nothing
\* farther away is consumed, and the iteration on a top-level content box
\* adds no shape of its own.
C18_PairedWithinTwoSiblings ==
    /\ [](\A j \in processed :
            /\ HasBoxClass(children[j])
            /\ \/ j > 1 /\ BareHeader(j - 1)
               \/ j > 2 /\ BareHeader(j - 2) /\ ~HasBoxClass(children[j - 1]))
    /\ [](\A k \in 1..(idx - 1) :
            BareHeader(k)
                => /\ (k + 1 <= Len(children) /\ HasBoxClass(children[k + 1]))
                          => (k + 1) \in processed
                   /\ (k + 2 <= Len(children) /\ ~HasBoxClass(children[k + 1])
                       /\ HasBoxClass(children[k + 2]))
                          => (k + 2) \in processed)
    /\ [][(spc = "loop" /\ idx <= Len(children) /\ HasBoxClass(children[idx]))
              => shapes' = shapes]_vars

\* A header has consumed the box two places after it, past a decorative
\* div, and the loop has gone past that box.
C18_Witness ==
    /\ spc = "done"
    /\ Len(children) = 3
    /\ BareHeader(1)
    /\ ~HasBoxClass(children[2])
    /\ processed = {3}
    /\ \E n \in DOMAIN shapes : shapes[n].kind = "box"

\* C19: a top-level sibling box is rendered for one header only: the text
\* of each top-level box is on the slide at most once.
C19_SiblingBoxPairedOnce ==
    \A j \in DOMAIN children :
        (HasBoxClass(children[j]) /\ Len(children[j].content.kids) > 0)
            => Cardinality({ n \in DOMAIN shapes :
                               /\ shapes[n].kind = "text"
                               /\ shapes[n].text = children[j].content.kids[1].text })
               <= 1

ChromeNames ==
    {"top-bar", "date-box", "main-title", "footer-bar", "bottom-bar", "footer",
     "page-number", "logo"}

\* C20: a positioned block with a section header is kept out of content
\* dispatch as chrome exactly when one of its class names is a chrome class
\* name; a class name that only contains one is dispatched as a section.
C20_ChromeByExactClassName ==
    (spc = "done" /\ Len(children) = 1 /\ children[1].tag = "div"
     /\ children[1].st.pos /\ children[1].hdr /\ Len(children[1].boxes) > 0)
        => IF children[1].cls \cap ChromeNames = {}
           THEN \E n \in DOMAIN shapes : shapes[n].kind = "separator"
           ELSE shapes = <<>>


KindRank(kind) ==
    CASE kind = "topbar" -> 1
      [] kind \in {"datebox", "datetext"} -> 2
      [] kind = "maintitle" -> 3
      [] kind = "footer" -> 4
      [] kind = "pagenumber" -> 5
      [] kind = "logo" -> 6
      [] kind = "legend" -> 8
      [] kind = "link" -> 9
      [] kind = "error" -> 10
      [] OTHER -> 7

TitleTexts(shs) ==
    LET ts == SelectSeq(shs, LAMBDA x : x.kind = "title")
    IN  [n \in DOMAIN ts |-> ts[n].text]

HeaderTitles(ch) ==
    LET hs == SelectSeq(ch, LAMBDA c : c.tag = "div" /\ c.hdr /\ c.title # "")
    IN  [n \in DOMAIN hs |-> hs[n].title]

\* C17: on every slide the shapes come in the order top bar, date box,
\* title, footer, page number, logo, then content blocks, then legend
\* lines, then links; and the section titles of a rendered slide come in
\* the source order of its header divs.
C17_EmissionOrder ==
    \A k \in DOMAIN out :
        /\ \A m, n \in DOMAIN out[k] :
               m < n => KindRank(out[k][m].kind) <= KindRank(out[k][n].kind)
        /\ (pc = "done" /\ ~SlideRaises(k))
               => TitleTexts(out[k]) = HeaderTitles(html.slides[k].children)

\* A saved slide with chrome, two sections, a legend line and a link.
C17_Witness ==
    /\ pc = "done"
    /\ \E k \in DOMAIN out :
           /\ out[k][1].kind = "topbar"
           /\ \E n \in DOMAIN out[k] : out[k][n].kind = "logo"
           /\ TitleTexts(out[k]) = <<"BUDGET", "RISKS">>
           /\ \E n \in DOMAIN out[k] : out[k][n].kind = "legend"
           /\ out[k][Len(out[k])].kind = "link"


(***************************************************************************)
(* Claims about block classification                                       *)
(***************************************************************************)
HasShape(kind) ==
    \E n \in DOMAIN shapes : shapes[n].kind = kind

\* C21: a block is a legend only if its style sets bottom and not top, it
\* holds a coloured indicator span and no section header; a block with both
\* top and bottom stays in content dispatch (its table is rendered).
C21_LegendNeedsBottomWithoutTop ==
    /\ \A k \in DOMAIN children :
           IsLegendDiv(children[k])
               => /\ children[k].st.bottom.k # "none"
                  /\ children[k].st.top.k = "none"
                  /\ children[k].legendSpan
                  /\ ~children[k].hdr
    /\ (spc = "done" /\ Len(children) = 1 /\ children[1].st.pos
        /\ children[1].st.top.k = "px" /\ children[1].st.bottom.k = "px"
        /\ ~children[1].hdr /\ Len(DivTables(children[1])) > 0)
           => HasShape("table")

\* The slide has one section, dispatched and rendered to its end, with a
\* resolved box.
OneSectionWithBox ==
    /\ spc = "done"
    /\ FirstSectionRendered
    /\ Cardinality({k \in DOMAIN children : children[k].hdr}) = 1
    /\ Len(ResolvedBox(children, 1)) > 0

\* C22: for a section with a resolved box one content renderer runs: the
\* table renderer whenever the box holds a table, else the planning
\* renderer when it holds the progress-bar pattern, else the generic one.
C22_TableBeforePlanningBeforeGeneric ==
    OneSectionWithBox
        => LET c == ResolvedBox(children, 1)[1].content
           IN  IF Len(c.tables) > 0
               THEN HasShape("table") /\ ~HasShape("bar")
               ELSE IF Len(c.bars) > 0
               THEN HasShape("bar") /\ ~HasShape("table")
               ELSE ~HasShape("bar") /\ ~HasShape("table")

\* C23: a header for which no box resolves renders its separator and title
\* only and raises no error; a positioned element matching no rule emits
\* nothing and raises no error.
C23_MissingBoxIsSkippedSilently ==
    /\ (Len(children) = 1 /\ children[1].hdr /\ ~Skipped(children, 1, {})
        /\ Len(children[1].boxes) = 0)
           => /\ spc # "raised"
              /\ spc = "done"
                     => /\ shapes[1].kind = "separator"
                        /\ \A n \in DOMAIN shapes :
                               shapes[n].kind \in {"separator", "title"}
    /\ children = <<Decor>> => spc # "raised" /\ shapes = <<>>

(***************************************************************************)
(* The per-cell styling of _render_table                                   *)
(***************************************************************************)
\* A style dict: the inline style of an element (_sty) or a stylesheet rule.
\* font_size is a CSS value, the colours are colour strings, text_align and
\* font_weight are the raw strings ("" when the key is absent).
Sty(font_size, text_align, font_weight, color, background, background_color) ==
    [font_size |-> font_size, text_align |-> text_align,
     font_weight |-> font_weight, color |-> color,
     background |-> background, background_color |-> background_color]

NoSty == Sty(NoVal, "", "", NoStr, NoStr, NoStr)

\* _bg_color: the colour of 'background', or of 'background-color' when
\* 'background' is absent or empty.
BgColor(sty) ==
    ParseColor(IF sty.background # NoStr THEN sty.background
               ELSE sty.background_color)

\* a or b on two colours (None is falsy, every RGBColor is a non-empty
\* tuple); the ValueError of RGBColor propagates, and b is not evaluated
\* when a is a colour.
OrColor(a, b) ==
    IF a.k \in {"raise", "rgb"} THEN a ELSE b

OrStr(a, b) ==
    IF a # "" THEN a ELSE b

OrNum(a, b) ==
    IF a # 0 THEN a ELSE b

FALLBACK_BLACK33 == RGBColor(51, 51, 51)
FALLBACK_WHITE == RGBColor(255, 255, 255)

\* One cell of a table: its tag, inline style, merged class rules, the
\* table-class th/td rules, the parsed row style, the table font size and
\* whether the cell holds a status circle.
TCell(tag, ds, cls_css, th_css, td_css, tr_sty, tbl_fs_px, circle) ==
    [tag |-> tag, ds |-> ds, cls_css |-> cls_css, th_css |-> th_css,
     td_css |-> td_css, tr_sty |-> tr_sty, tbl_fs_px |-> tbl_fs_px,
     circle |-> circle]

TagCss(c) ==
    IF c.tag = "th" THEN c.th_css ELSE c.td_css

\* cell_fs, in px.
CellFs(c) ==
    OrNum(PxOf(c.ds.font_size),
          OrNum(PxOf(c.cls_css.font_size),
                OrNum(PxOf(TagCss(c).font_size), c.tbl_fs_px)))

CellFsRaises(c) ==
    \/ PxRaises(c.ds.font_size)
    \/ PxOf(c.ds.font_size) = 0 /\ PxRaises(c.cls_css.font_size)
    \/ PxOf(c.ds.font_size) = 0 /\ ~PxRaises(c.cls_css.font_size)
       /\ PxOf(c.cls_css.font_size) = 0 /\ PxRaises(TagCss(c).font_size)

\* fs_pt = cell_fs * 0.75, 8 when below 6; in quarter points.
CellFsQuarterPt(c) ==
    IF 3 * CellFs(c) < 24 THEN 32 ELSE 3 * CellFs(c)

CellAlignRaw(c) ==
    OrStr(c.ds.text_align, OrStr(c.cls_css.text_align, TagCss(c).text_align))

\* The .get(align, PP_ALIGN.LEFT) lookup.
CellAlign(c) ==
    IF CellAlignRaw(c) \in {"center", "right"} THEN CellAlignRaw(c) ELSE "left"

CellFw(c) ==
    OrStr(c.ds.font_weight, OrStr(c.cls_css.font_weight, TagCss(c).font_weight))

\* r.font.bold: set from the weight, set on a th without one, else left unset.
CellBold(c) ==
    IF CellFw(c) # "" THEN (IF CellFw(c) \in {"400", "normal"} THEN "false" ELSE "true")
    ELSE IF c.tag = "th" THEN "true" ELSE "unset"

TrBg(c) == ParseColor(c.tr_sty.background)
TrColor(c) == ParseColor(c.tr_sty.color)

\* cell_color of line 905: inline, class, row, default.
CellColor(c) ==
    OrColor(ParseColor(c.ds.color),
            OrColor(ParseColor(c.cls_css.color),
                    OrColor(TrColor(c), FALLBACK_BLACK33)))

\* cell_bg: inline, then class.
CellBg(c) ==
    OrColor(BgColor(c.ds), BgColor(c.cls_css))

\* The colour handed to _cell_fill, None when the cell is not filled: a th
\* takes its own background before the row's, a td the row's before its own.
CellFill(c) ==
    IF c.tag = "th" THEN OrColor(CellBg(c), TrBg(c))
    ELSE IF TrBg(c).k # "none" THEN TrBg(c)
    ELSE CellBg(c)

\* The colour of the cell's run: the circle colour or cell_color, white on a
\* th whose fill is not light.
CellRunColor(c) ==
    LET base == IF c.circle.k # "none" THEN c.circle ELSE CellColor(c)
    IN  IF base.k = "raise" THEN base
        ELSE IF c.tag = "th" /\ CellFill(c).k = "rgb" /\ ~IsLight(CellFill(c).c)
        THEN FALLBACK_WHITE
        ELSE base

CellRaises(c) ==
    \/ TrBg(c).k = "raise"
    \/ TrColor(c).k = "raise"
    \/ CellFsRaises(c)
    \/ CellRunColor(c).k = "raise"
    \/ CellBg(c).k = "raise"

\* What _render_table leaves on the cell.
CellCall(c) ==
    IF CellRaises(c) THEN [k |-> "raise"]
    ELSE [k |-> "cell", fs |-> CellFs(c), fs_q |-> CellFsQuarterPt(c),
          align |-> CellAlign(c), fw |-> CellFw(c), bold |-> CellBold(c),
          color |-> CellRunColor(c), fill |-> CellFill(c)]

(***************************************************************************)
(* _parse_stylesheet and _ss_get                                           *)
(***************************************************************************)
\* dict.update
Update(a, b) ==
    [k \in DOMAIN a \cup DOMAIN b |-> IF k \in DOMAIN b THEN b[k] ELSE a[k]]

EmptyDict == [k \in {} |-> ""]

\* The props dict of one rule body: a later declaration of a key replaces
\* the earlier one.
RECURSIVE Props(_)
Props(decls) ==
    IF Len(decls) = 0 THEN EmptyDict
    ELSE LET d == decls[Len(decls)]
         IN  Update(Props(SubSeq(decls, 1, Len(decls) - 1)),
                    [k \in {d[1]} |-> d[2]])

Rule(sels, decls) ==
    [sels |-> sels, decls |-> decls]

\* for sel in selectors.split(','): ss[sel.strip()] = props
RECURSIVE Assign(_, _, _)
Assign(sheet, sels, props) ==
    IF Len(sels) = 0 THEN sheet
    ELSE Assign(Update(sheet, [k \in {Head(sels)} |-> props]), Tail(sels), props)

\* _parse_stylesheet over the rules of the document in source order.
RECURSIVE ParseStylesheet(_)
ParseStylesheet(rules) ==
    IF Len(rules) = 0 THEN EmptyDict
    ELSE LET r == rules[Len(rules)]
         IN  Assign(ParseStylesheet(SubSeq(rules, 1, Len(rules) - 1)),
                    r.sels, Props(r.decls))

\* _ss_get(ss, *selectors)
RECURSIVE SsGet(_, _)
SsGet(sheet, selectors) ==
    IF Len(selectors) = 0 THEN EmptyDict
    ELSE LET sel == selectors[Len(selectors)]
             m == SsGet(sheet, SubSeq(selectors, 1, Len(selectors) - 1))
         IN  IF sel \in DOMAIN sheet THEN Update(m, sheet[sel]) ELSE m

(***************************************************************************)
(* SlideRenderer._render_box_content, in full                              *)
(*                                                                         *)
(* A node is an element of the box's tree: its tag, the tokens of its      *)
(* class attribute, the properties of its inline style the renderer reads, *)
(* its own text and its element children.  The renderer returns the        *)
(* vertical cursor; the model returns the cursor with the emission trace.  *)
(***************************************************************************)
NodeSty(margin_top, margin_bottom, line_height, margin_left, font_size) ==
    [margin_top |-> margin_top, margin_bottom |-> margin_bottom,
     line_height |-> line_height, margin_left |-> margin_left,
     font_size |-> font_size]

NoNodeSty == NodeSty(NoVal, NoVal, NoVal, NoVal, NoVal)

Node(tag, cls, st, text, kids) ==
    [tag |-> tag, cls |-> cls, st |-> st, text |-> text, kids |-> kids]

\* The stylesheet values the renderer reads: font-size of
\* .budget-label/.sub-label, font-size and margin-bottom of .bullet-item,
\* font-size of .bullet-item::before.
BoxSheet(labelFs, itemFs, itemMb, bulletFs) ==
    [labelFs |-> labelFs, itemFs |-> itemFs, itemMb |-> itemMb,
     bulletFs |-> bulletFs]

NoBoxSheet == BoxSheet(NoVal, NoVal, NoVal, NoVal)

\* el.text_content().strip() is not empty.
RECURSIVE HasText(_)
HasText(n) ==
    n.text # "" \/ \E k \in 1..Len(n.kids) : HasText(n.kids[k])

LINE_H == 13
NESTED_INDENT == 16

\* The glyphs of the markers.
BULLET == "u2022"
SQUARE == "u25aa"

\* lh: LINE_H, a multiple of it for a line-height below 5, the line-height
\* itself from 5 on.
LineH(v) ==
    IF PxOf(v) > 0 /\ PxOf(v) < 5 THEN LINE_H * PxOf(v)
    ELSE IF PxOf(v) >= 5 THEN PxOf(v)
    ELSE LINE_H

\* f'{li_num}.'
OlMarker(li_num) ==
    <<"1.", "2.", "3.", "4.">>[li_num]

Max2(a, b) ==
    IF a > b THEN a ELSE b

\* The result of a renderer that threads y: the shapes added and the cursor.
R(tr, y) ==
    [tr |-> tr, y |-> y]

RECURSIVE RenderBoxContent(_, _, _, _, _, _)
RECURSIVE ListItems(_, _, _, _, _, _, _, _, _, _, _)
RECURSIVE NestedLists(_, _, _, _, _, _)
RECURSIVE BoxChild(_, _, _, _, _, _)

\* `for nested in li`: each ul/ol child of the item is handed to
\* _render_box_content with indent + 16.
NestedLists(kids, left, y, w, indent, sheet) ==
    IF Len(kids) = 0 THEN R(<<>>, y)
    ELSE LET n == Head(kids)
             one == IF n.tag \in {"ul", "ol"}
                    THEN RenderBoxContent(n.kids, left, y, w,
                                          indent + NESTED_INDENT, sheet)
                    ELSE R(<<>>, y)
             rest == NestedLists(Tail(kids), left, one.y, w, indent, sheet)
         IN  R(one.tr \o rest.tr, rest.y)

\* `for li in child` of the ul/ol branch.
ListItems(items, tag, li_x, li_w, lh, li_num, left, y, w, indent, sheet) ==
    IF Len(items) = 0 THEN R(<<>>, y)
    ELSE LET li == Head(items)
         IN  IF li.tag # "li"
             THEN ListItems(Tail(items), tag, li_x, li_w, lh, li_num, left, y,
                            w, indent, sheet)
             ELSE IF ~HasText(li)
             THEN ListItems(Tail(items), tag, li_x, li_w, lh, li_num + 1, left,
                            y, w, indent, sheet)
             ELSE LET own == IF tag = "ol"
                             THEN <<Shape("marker", li_x, y, 18, lh,
                                          OlMarker(li_num + 1)),
                                    Shape("text", li_x + 18, y, li_w - 18, lh,
                                          li.text)>>
                             ELSE <<Shape("marker", li_x, y, 10, lh, BULLET),
                                    Shape("text", li_x + 12, y, li_w - 12, lh,
                                          li.text)>>
                      nested == NestedLists(li.kids, left, y + lh, w, indent,
                                            sheet)
                      rest == ListItems(Tail(items), tag, li_x, li_w, lh,
                                        li_num + 1, left, nested.y, w, indent,
                                        sheet)
                  IN  R(own \o nested.tr \o rest.tr, rest.y)

\* One iteration of `for child in parent` on a child that is not inline.
BoxChild(child, left, y0, w, indent, sheet) ==
    LET x_base == left + 8 + indent
        w_inner == w - 16 - indent
        cst == child.st
        mb == PxOf(cst.margin_bottom)
        y == y0 + PxOf(cst.margin_top)
        lh == LineH(cst.line_height)
        pre == RaiseIf(PxRaises(cst.margin_top))
               \o RaiseIf(PxRaises(cst.margin_bottom))
               \o RaiseIf(PxRaises(cst.line_height))
    IN  IF ClsHas(child.cls, "budget-label") \/ ClsHas(child.cls, "sub-label")
        THEN R(pre
               \o RaiseIf(PxRaises(OrVal(cst.font_size,
                                         OrVal(sheet.labelFs, Px(12)))))
               \o <<Shape("text", x_base, y, w_inner, 14, child.text)>>,
               y + 14 + mb)
        ELSE IF ClsHas(child.cls, "bullet-item")
        THEN LET fs == OrVal(cst.font_size, OrVal(sheet.itemFs, Px(11)))
                 imb == OrVal(cst.margin_bottom, OrVal(sheet.itemMb, Px(4)))
             IN  R(pre
                   \o RaiseIf(PxRaises(fs)) \o RaiseIf(PxRaises(imb))
                   \o <<Shape("marker", x_base, y, 10, 12, SQUARE),
                        Shape("text", x_base + 12, y, w_inner - 12, 14,
                              child.text)>>,
                   y + Max2(14, (135 * PxOf(fs)) \div 100) + PxOf(imb))
        ELSE IF child.tag \in {"ul", "ol"}
        THEN LET ul_margin == PxOf(cst.margin_left)
                 items == ListItems(child.kids, child.tag, x_base + ul_margin,
                                    w_inner - ul_margin, lh, 0, left, y, w,
                                    indent, sheet)
             IN  R(pre \o RaiseIf(PxRaises(cst.margin_left)) \o items.tr,
                   items.y + mb)
        ELSE IF child.tag = "p"
        THEN IF HasText(child)
             THEN R(pre \o <<Shape("text", x_base, y, w_inner, 14, child.text)>>,
                    y + 14 + mb)
             ELSE R(pre, y + mb)
        ELSE IF child.tag = "div"
        THEN IF \E k \in 1..Len(child.kids) :
                    child.kids[k].tag \in {"p", "ul", "div", "table"}
             THEN LET in == RenderBoxContent(child.kids, left, y, w,
                                indent + PxOf(cst.margin_left), sheet)
                  IN  R(pre \o RaiseIf(PxRaises(cst.font_size))
                        \o RaiseIf(PxRaises(cst.margin_left)) \o in.tr,
                        in.y + mb)
             ELSE IF HasText(child)
             THEN R(pre \o <<Shape("text", x_base, y, w_inner, 14, child.text)>>,
                    y + 14 + mb)
             ELSE R(pre, y + mb)
        ELSE R(pre, y)

\* _render_box_content(parent, left, y, w, indent) over the element children
\* of parent; the bullet font size is read before the loop.
RenderBoxContent(kids, left, y, w, indent, sheet) ==
    IF Len(kids) = 0 THEN R(<<>>, y)
    ELSE IF Head(kids).tag \in InlineTags
    THEN RenderBoxContent(Tail(kids), left, y, w, indent, sheet)
    ELSE LET one == BoxChild(Head(kids), left, y, w, indent, sheet)
             rest == RenderBoxContent(Tail(kids), left, one.y, w, indent, sheet)
         IN  R(one.tr \o rest.tr, rest.y)

RenderBoxContentCall(parent, left, y, w, sheet) ==
    LET r == RenderBoxContent(parent.kids, left, y, w, 0, sheet)
        tr == RaiseIf(PxRaises(OrVal(sheet.bulletFs, Px(10)))) \o r.tr
    IN  IF Raised(tr) THEN [k |-> "raise"]
        ELSE [k |-> "box", tr |-> tr, y |-> r.y]

(***************************************************************************)
(* The renderer machine: one call of the per-cell styling of              *)
(* _render_table, of _render_box_content, or of _parse_stylesheet followed *)
(* by _ss_get                                                              *)
(***************************************************************************)
NoTCell == TCell("td", NoSty, NoSty, NoSty, NoSty, NoSty, 11, NoneRet)
NoNode == Node("div", {}, NoNodeSty, "", <<>>)

RCall(fn, cell, rules, sels, el, left, y, w, sheet) ==
    [fn |-> fn, cell |-> cell, rules |-> rules, sels |-> sels, el |-> el,
     left |-> left, y |-> y, w |-> w, sheet |-> sheet]

Hex3(a, b, c) == ColorStr(<<"#", a, b, c>>)

InlineStys ==
    { NoSty,
      Sty(Px(12), "center", "700", Hex3("0", "0", "f"), Hex3("f", "0", "0"), NoStr),
      Sty(NoVal, "", "", NoStr, NoStr, Hex3("0", "0", "8")),
      Sty(Px(4), "justify", "normal", NoStr, NoStr, NoStr) }

ClassStys ==
    { NoSty,
      Sty(Px(10), "right", "400", Hex3("0", "8", "0"), Hex3("f", "f", "0"), NoStr),
      Sty(Bad, "", "", NoStr, NoStr, NoStr) }

TagStys ==
    { NoSty,
      Sty(Px(9), "center", "bold", Hex3("f", "0", "0"), Hex3("0", "f", "f"), NoStr),
      Sty(NoVal, "", "", Hex3("8", "0", "0"), NoStr, NoStr) }

RowStys ==
    { NoSty,
      Sty(NoVal, "", "", NoStr, Hex3("e", "e", "e"), NoStr),
      Sty(NoVal, "", "", Hex3("f", "f", "f"), Hex3("0", "0", "0"), NoStr),
      Sty(NoVal, "", "", ColorFn("rgb", 300, 0, 0), NoStr, NoStr) }

CellInputSet ==
    { TCell(tag, ds, cls, tcs, tcs, tr, 11, cc) :
          tag \in {"th", "td"}, ds \in InlineStys, cls \in ClassStys,
          tcs \in TagStys, tr \in RowStys,
          cc \in {NoneRet, RGBColor(0, 170, 0)} }

RuleInputs ==
    { Rule(<<".a">>, << <<"color", "red">> >>),
      Rule(<<".a">>, << <<"color", "blue">> >>),
      Rule(<<".a">>, << <<"font-size", "12px">> >>),
      Rule(<<".a", ".b">>, << <<"color", "green">>, <<"color", "black">> >>),
      Rule(<<".b">>, << <<"font-size", "10px">>, <<"color", "red">> >>) }

SelectorLists ==
    { <<".a">>, <<".a", ".b">>, <<".b", ".a">>, <<".c", ".a">> }

MaxRules == 3

Li(text, kids) == Node("li", {}, NoNodeSty, text, kids)
P(st, text) == Node("p", {}, st, text, <<>>)

Margins(mt, mb) == NodeSty(mt, mb, NoVal, NoVal, NoVal)

NestedUl ==
    Node("ul", {}, NoNodeSty, "",
         <<Li("A", <<Node("ul", {}, NoNodeSty, "", <<Li("B", <<>>), Li("C", <<>>)>>)>>),
           Li("D", <<>>)>>)

NestedOl ==
    Node("ol", {}, NodeSty(NoVal, Px(6), Px(2), Px(10), NoVal), "",
         <<Li("", <<>>),
           Li("A", <<Node("span", {}, NoNodeSty, "s", <<>>),
                     Node("ol", {}, NoNodeSty, "", <<Li("B", <<>>)>>)>>)>>)

ChildInputs ==
    { P(NoNodeSty, "one"), P(NoNodeSty, ""),
      P(Margins(Px(10), Px(5)), "two"),
      P(Margins(Neg(30), Neg(40)), "up"),
      P(Margins(Bad, NoVal), "bad"),
      Node("span", {}, NoNodeSty, "inline", <<>>),
      Node("h3", {}, Margins(Px(7), Px(9)), "head", <<>>),
      Node("div", {}, Margins(NoVal, Px(3)), "leaf", <<>>),
      Node("div", {}, NodeSty(Px(2), Neg(20), NoVal, Px(12), Px(16)), "",
           <<P(NoNodeSty, "in"), P(Margins(Neg(50), NoVal), "in2")>>),
      Node("div", {"budget-label"}, Margins(NoVal, Px(2)), "Budget", <<>>),
      Node("div", {"bullet-item"}, NodeSty(NoVal, NoVal, NoVal, NoVal, Px(20)),
           "item", <<>>),
      Node("div", {"bullet-item"}, Margins(NoVal, Neg(60)), "item2", <<>>),
      Node("ul", {}, NodeSty(NoVal, NoVal, Neg(20), NoVal, NoVal), "",
           <<Li("x", <<>>), Li("y", <<>>)>>),
      Node("ul", {}, NodeSty(NoVal, NoVal, Px(20), NoVal, NoVal), "",
           <<Li("x", <<>>)>>),
      NestedUl, NestedOl }

ParentInputs ==
    { Node("div", {"section-box"}, NoNodeSty, "", ks) :
          ks \in SeqsUpTo(ChildInputs, 2) }

BoxSheets ==
    { NoBoxSheet, BoxSheet(Px(14), Px(10), Px(0), Px(8)) }

RenderCalls ==
    { RCall("cell", c, <<>>, <<>>, NoNode, 0, 0, 0, NoBoxSheet) :
          c \in CellInputSet }
    \cup { RCall("_ss_get", NoTCell, rs, sels, NoNode, 0, 0, 0, NoBoxSheet) :
               rs \in SeqsUpTo(RuleInputs, MaxRules), sels \in SelectorLists }
    \cup { RCall("_render_box_content", NoTCell, <<>>, <<>>, el, 20, y, 400, sh) :
               el \in ParentInputs, y \in {0, 91}, sh \in BoxSheets }

RenderInit ==
    /\ fpc = "call"
    /\ arg \in RenderCalls
    /\ ret = NoneRet

\* The styling of one cell in _render_table.
CallCell ==
    Return("cell", CellCall(arg.cell))

CallRenderBoxContent ==
    Return("_render_box_content",
           RenderBoxContentCall(arg.el, arg.left, arg.y, arg.w, arg.sheet))

\* SlideRenderer.__init__: self.ss = _parse_stylesheet(doc)
CallParseStylesheet ==
    /\ fpc = "call"
    /\ arg.fn = "_ss_get"
    /\ ret' = [k |-> "sheet", ss |-> ParseStylesheet(arg.rules)]
    /\ fpc' = "parsed"
    /\ UNCHANGED arg

\* _ss_get(self.ss, *selectors)
CallSsGet ==
    /\ fpc = "parsed"
    /\ ret' = [k |-> "dict", ss |-> ret.ss, merged |-> SsGet(ret.ss, arg.sels)]
    /\ fpc' = "returned"
    /\ UNCHANGED arg

SpecRenderInit ==
    /\ RenderInit
    /\ TableIdle
    /\ SectionIdle
    /\ DocIdle

SpecRenderNext ==
    \/ CallCell /\ UNCHANGED <<tableVars, sectionVars, docVars>>
    \/ CallRenderBoxContent /\ UNCHANGED <<tableVars, sectionVars, docVars>>
    \/ CallParseStylesheet /\ UNCHANGED <<tableVars, sectionVars, docVars>>
    \/ CallSsGet /\ UNCHANGED <<tableVars, sectionVars, docVars>>

SpecRender == SpecRenderInit /\ [][SpecRenderNext]_vars

RenderReturned(fn) ==
    fpc = "returned" /\ arg.fn = fn

(***************************************************************************)
(* Claims on the cell styling of _render_table                             *)
(***************************************************************************)
\* C24: a body cell is filled with its own background (inline or class) when
\* it has one and with the row's background only when it has none; a header
\* cell is filled with its own background, else the row's.
C24_CellBackgroundBeforeRow ==
    RenderReturned("cell") /\ ret.k = "cell" =>
        ret.fill = OrColor(CellBg(arg.cell), TrBg(arg.cell))

FirstOfThree(c, a, b, d) ==
    OrColor(a, OrColor(b, d))

\* C25: font size, alignment, weight, text colour and background of a cell
\* each come from the first of inline style, class rule and table-class
\* th/td rule that supplies a value.
C25_CellStyleResolutionOrder ==
    RenderReturned("cell") /\ ret.k = "cell" =>
        LET c == arg.cell
            t == TagCss(c)
            fs == OrNum(PxOf(c.ds.font_size),
                        OrNum(PxOf(c.cls_css.font_size), PxOf(t.font_size)))
            al == OrStr(c.ds.text_align, OrStr(c.cls_css.text_align, t.text_align))
            fw == OrStr(c.ds.font_weight,
                        OrStr(c.cls_css.font_weight, t.font_weight))
            col == FirstOfThree(c, ParseColor(c.ds.color),
                                ParseColor(c.cls_css.color), ParseColor(t.color))
            bg == FirstOfThree(c, BgColor(c.ds), BgColor(c.cls_css), BgColor(t))
        IN  /\ fs # 0 => ret.fs = fs
            /\ al # "" => ret.align = (IF al \in {"center", "right"} THEN al ELSE "left")
            /\ fw # "" => ret.fw = fw
            /\ col.k = "rgb" /\ c.circle.k = "none"
               /\ ~(c.tag = "th" /\ ret.color = FALLBACK_WHITE)
                   => ret.color = col
            /\ bg.k = "rgb" => ret.fill = bg

(***************************************************************************)
(* Claims on _render_box_content                                           *)
(***************************************************************************)
\* f'{li_num}.' of the m-th child of a list: li_num counts the li children.
LiNum(items, m) ==
    Cardinality({q \in 1..m : items[q].tag = "li"})

\* C26: every non-empty li of a list nested in an li gets its own marker
\* (bullet for ul, "N." for ol) and text box, 16px right of the items of the
\* parent list and below the parent item's line.
C26_NestedListItemsRendered ==
    RenderReturned("_render_box_content") /\ ret.k = "box" =>
        \A k \in DOMAIN arg.el.kids :
            LET L == arg.el.kids[k]
            IN  L.tag \in {"ul", "ol"} =>
                \A a \in DOMAIN L.kids : \A j \in DOMAIN L.kids[a].kids :
                    LET li == L.kids[a]
                        N == li.kids[j]
                    IN  li.tag = "li" /\ HasText(li) /\ N.tag \in {"ul", "ol"} =>
                        \A m \in DOMAIN N.kids :
                            N.kids[m].tag = "li" /\ HasText(N.kids[m]) =>
                            \E q \in DOMAIN ret.tr : \E n \in 2..Len(ret.tr) :
                                /\ q >= 2 /\ q < n - 1
                                /\ ret.tr[q].kind = "text"
                                /\ ret.tr[q].text = li.text
                                /\ ret.tr[n].kind = "text"
                                /\ ret.tr[n].text = N.kids[m].text
                                /\ ret.tr[n].y >= ret.tr[q].y + ret.tr[q].h
                                /\ ret.tr[n - 1].kind = "marker"
                                /\ ret.tr[n - 1].y = ret.tr[n].y
                                /\ ret.tr[n - 1].x = ret.tr[q - 1].x + E(NESTED_INDENT)
                                /\ ret.tr[n - 1].text =
                                       (IF N.tag = "ul" THEN BULLET
                                        ELSE OlMarker(LiNum(N.kids, m)))

\* C27: _render_box_content returns a cursor that is not above the one it
\* was given, and the text boxes it adds come in non-decreasing top order,
\* whatever the margins and line heights.
C27_CursorNeverDecreases ==
    RenderReturned("_render_box_content") /\ ret.k = "box" =>
        /\ ret.y >= arg.y
        /\ \A m \in DOMAIN ret.tr : \A n \in DOMAIN ret.tr :
               m < n => ret.tr[m].y <= ret.tr[n].y
        /\ \A n \in DOMAIN ret.tr : ret.tr[n].y >= E(arg.y)

\* A returned call on a box holding a paragraph with margins followed by a
\* paragraph with negative margins, or a nested list below a block with a
\* negative line height.
C27_NegativeMarginsLaidOut ==
    /\ RenderReturned("_render_box_content")
    /\ ret.k = "box"
    /\ arg.el.kids = <<P(Margins(Px(10), Px(5)), "two"),
                       P(Margins(Neg(30), Neg(40)), "up")>>
    /\ Len(ret.tr) = 2
    /\ ret.tr[2].y = E(arg.y + 10 + 14 + 5)
    /\ ret.y = arg.y + 43

(***************************************************************************)
(* Claims on the stylesheet                                                *)
(***************************************************************************)
Declares(rule, sel, prop) ==
    /\ \E k \in DOMAIN rule.sels : rule.sels[k] = sel
    /\ \E k \in DOMAIN rule.decls : rule.decls[k][1] = prop

StyleSelectors == {".a", ".b", ".c"}
StyleProps == {"color", "font-size"}

\* C29: a property declared by several rules of one selector resolves to
\* the value of the latest rule declaring it, and _ss_get over a list of
\* selectors gives each property the value of the last listed selector that
\* declares it.
C29_LastDeclarationWins ==
    /\ fpc \in {"parsed", "returned"} /\ arg.fn = "_ss_get" =>
           \A sel \in StyleSelectors : \A prop \in StyleProps :
               LET D == {k \in DOMAIN arg.rules : Declares(arg.rules[k], sel, prop)}
               IN  Cardinality(D) >= 2 =>
                       LET last == CHOOSE k \in D : \A o \in D : o <= k
                       IN  /\ sel \in DOMAIN ret.ss
                           /\ prop \in DOMAIN ret.ss[sel]
                           /\ ret.ss[sel][prop] = Props(arg.rules[last].decls)[prop]
    /\ RenderReturned("_ss_get") =>
           \A prop \in StyleProps :
               LET D == {k \in DOMAIN arg.sels :
                             /\ arg.sels[k] \in DOMAIN ret.ss
                             /\ prop \in DOMAIN ret.ss[arg.sels[k]]}
               IN  IF D = {} THEN prop \notin DOMAIN ret.merged
                   ELSE LET last == CHOOSE k \in D : \A o \in D : o <= k
                        IN  /\ prop \in DOMAIN ret.merged
                            /\ ret.merged[prop] = ret.ss[arg.sels[last]][prop]

(***************************************************************************)
(* Claims on links and on the pixel scale                                  *)
(***************************************************************************)
CountKind(shs, kind) ==
    Len(SelectSeq(shs, LAMBDA x : x.kind = kind))

\* The a.link-text anchors of a slide outside its sections: the direct
\* children, and those below its positioned divs without a section header.
RECURSIVE LinkAnchors(_)
LinkAnchors(ch) ==
    IF Len(ch) = 0 THEN 0
    ELSE (IF Head(ch).tag = "a" /\ "link-text" \in Head(ch).cls THEN 1
          ELSE IF Head(ch).tag = "div" /\ Head(ch).st.pos /\ ~Head(ch).hdr
          THEN Head(ch).links
          ELSE 0)
         + LinkAnchors(Tail(ch))

\* C28: on a slide that rendered, every link anchor outside the sections,
\* direct child or nested at any depth in positioned containers, is
\* rendered exactly once.
C28_EachLinkRenderedOnce ==
    pc = "done" =>
        \A k \in DOMAIN out :
            ~SlideRaises(k) =>
                CountKind(out[k], "link") = LinkAnchors(html.slides[k].children)

SLIDE_H_MILLI_IN == 5625

\* int(inches * 914400) for a length given in thousandths of an inch.
EmuOfMilliInch(m) ==
    (m * (EMU_PER_INCH \div 100)) \div 10

\* prs.slide_width, prs.slide_height
SlideWidthEmu == EmuOfMilliInch(1000 * SLIDE_W_IN)
SlideHeightEmu == EmuOfMilliInch(SLIDE_H_MILLI_IN)

PxSamples == {0 - 15, 0, 1, 7, 32, 96, 500, 540, 960, 5000}

\* C30: E is the linear scale 9525 EMU per pixel, it maps 960x540 onto the
\* slide size, the footer's bottom edge is the canvas bottom and the date
\* box's right edge is 960 - right.
C30_PixelScaleIsLinear ==
    /\ \A a \in PxSamples : \A b \in PxSamples :
           E(a) = 9525 * a /\ E(a + b) = E(a) + E(b)
    /\ E(SLIDE_W_PX) = SlideWidthEmu
    /\ E(SLIDE_H_PX) = SlideHeightEmu
    /\ \A k \in DOMAIN out : \A n \in DOMAIN out[k] :
           LET sh == out[k][n]
               sl == html.slides[k]
           IN  /\ sh.kind = "footer"
                   => /\ sh.y = E(SLIDE_H_PX - PxOr(sl.footer[1].h, 32))
                      /\ sh.y + sh.h = SlideHeightEmu
                      /\ sh.x = 0 /\ sh.w = SlideWidthEmu
               /\ sh.kind = "datebox"
                   => sh.x + sh.w = E(SLIDE_W_PX - PxOr(sl.datebox[1].right, 0))

\* A saved presentation with a 40px footer on one slide and a date box 20px
\* from the right edge on another.
C30_Witness ==
    /\ pc = "done"
    /\ \E k \in DOMAIN out : \E n \in DOMAIN out[k] :
           /\ out[k][n].kind = "footer"
           /\ out[k][n].y = 9525 * 500
           /\ out[k][n].h = 9525 * 40
    /\ \E k \in DOMAIN out : \E n \in DOMAIN out[k] :
           /\ out[k][n].kind = "datebox"
           /\ out[k][n].x = 9525 * 820
           /\ out[k][n].w = 9525 * 120

====
